---- MODULE Spec2Model ----
(***************************************************************************)
(* Flyer asset resolution and extraction pipeline (tai0no/flyer-menu).     *)
(*                                                                         *)
(* The module holds several state machines over disjoint variable groups:  *)
(*   SpecNorm   normalizeFlyerItem / toNumberPrice        (lib/flyer.ts)    *)
(*   Spec       the POST handler of the extract-url route, whole            *)
(*   SpecBatch  the per-tile extraction loop and the deduplication of the  *)
(*              extract-url and extract routes                             *)
(*   SpecCap    the deduplication and the cap with more items than the cap *)
(*   SpecSeq    the extraction loop with each call's start and return      *)
(*   SpecPdf    convertPdfToPngPages and its temporary directory           *)
(*   SpecResolve   the POST handler of the resolve route                   *)
(*   SpecDiscover  the POST handler of the discover route and              *)
(*                 discoverFlyerCandidates (lib/flyerDiscover.ts)          *)
(*   SpecResolveLive  SpecResolve with a fetch that never settles          *)
(*   SpecAuto   the auto-fetch runs of one store in the page (page.tsx)    *)
(*   SpecScan   the helpers that collect URLs from HTML                    *)
(*   SpecTile   tileImagePng on one bitmap                                 *)
(*   SpecKey    makeDedupKey and the deduplication on two items            *)
(*   SpecGrid   pickShufooTileGroups and composeShufooTiles on a URL list  *)
(* Each specification leaves the variables of the other groups idle.       *)
(*                                                                         *)
(* JavaScript values are modelled as tagged records:                       *)
(*   [t |-> "undef"], [t |-> "null"], [t |-> "bool"],                      *)
(*   [t |-> "str", s |-> <<chars>>],                                       *)
(*   [t |-> "num", tenths |-> k]   the finite number k/10,                 *)
(*   [t |-> "nan"], [t |-> "inf"]  the non-finite numbers,                 *)
(*   [t |-> "obj", ...]            an object with the listed fields.       *)
(* Strings are sequences of characters; a character outside ASCII is      *)
(* written as a token: "YEN", "ZEI", "KOMI" (the yen and tax signs),       *)
(* "IDSP" (U+3000), "FW(" (a full-width parenthesis), "SO" "NO" "TA".      *)
(***************************************************************************)
EXTENDS Integers, Sequences, FiniteSets, TLC

VARIABLES
  raw, out, npc,         \* normalizeFlyerItem: input, result, position
  route,                 \* "extract-url" or "extract": whose POST handler runs
  req,                   \* the request: storeId, urls, mode, maxTiles, and the server's apiKey
  pc,                    \* the handler's position
  warnings,              \* const warnings: string[]
  tiles,                 \* const tiles: Tile[]
  ti,                    \* the extraction loop's i
  allItems,              \* const allItems: FlyerItem[]
  items,                 \* const items = Array.from(map.values())
  resp,                  \* the response returned, or the exception thrown
  calls,                 \* history: tileIndexGlobal of every callGeminiForTile, in order
  outcomes,              \* history: what each of those calls did
  urls,                  \* extract-url: body.urls ?? [body.url]
  ui,                    \* position of the pre-resolution loop in urls
  inputUrls,             \* const inputUrls: string[]
  web,                   \* what the servers answer, per URL fetched so far
  fetched,               \* history: the URL of every fetch issued, in order
  groups,                \* const tileGroups
  gi,                    \* position of the compositing loop in groups
  stitchedTileUrls,      \* const stitchedTileUrls: Set<string>
  pagePngs,              \* const pagePngs: Buffer[]
  ni,                    \* position of the normalization loop in inputUrls
  rReq,                  \* resolve route: the request body
  rpc,                   \* resolve route: the handler's position
  rTarget,               \* const targetPage
  rImgs,                 \* const imgCandidates
  rPdfs,                 \* const pdfCandidates
  rScored,               \* const scored
  rFetched,              \* history: URL and method of every request the resolve route issues
  rResp,                 \* resolve route: the response
  dEntry,                \* discovery: "route" (POST) or "lib" (discoverFlyerCandidates)
  dStoreId,              \* discovery: the storeId given
  dpc,                   \* discovery: position
  dHtml,                 \* discovery: const storeHtml / html
  dFetched,              \* history: the URL of every fetch discovery issues
  dResult,               \* discovery: the response, the result or the exception
  autoStoreId,           \* page.tsx: the store whose auto-fetch runs are followed
  autoRuns,              \* page.tsx: the invocations of startAutoFetch...ForStore, oldest first
  abortRef,              \* abortRef.current[storeId]: the run that owns the controller, or 0
  autoStateByStore,      \* autoStateByStore[storeId]
  autoFlyerByStore,      \* autoFlyerByStore[storeId]: the run whose result is kept, or 0
  autoModeByStore,       \* autoModeByStore[storeId]
  sHtml,                 \* URL scanning: the references of the HTML scanned, in order
  sHelper,               \* URL scanning: the helper applied
  sOut,                  \* URL scanning: the URLs the helper returns
  spc,                   \* URL scanning: position
  tPng,                  \* tiling: the bitmap given to tileImagePng
  tPage,                 \* tiling: pageIndex
  tBudget,               \* tiling: maxTilesTotal
  tOut,                  \* tiling: the tiles returned
  tpc,                   \* tiling: position
  kA, kB,                \* dedup key: two items of one extraction, in order
  kKeys,                 \* dedup key: makeDedupKey of each
  kOut,                  \* dedup key: Array.from(map.values())
  kpc,                   \* dedup key: position
  cUrls,                 \* tile grids: the URLs given to pickShufooTileGroups
  cGroups,               \* tile grids: the grids it returns
  ci,                    \* tile grids: position of the compositing loop in cGroups
  cOut,                  \* tile grids: per grid, what composeShufooTiles did
  cpc,                   \* tile grids: position
  fEntry,                \* convertPdfToPngPages: of extract-url or of extract
  fPdf,                  \* convertPdfToPngPages: the pages of the PDF given
  fDir,                  \* the temporary directory: "none", "exists" or "removed"
  fFiles,                \* the files in the temporary directory
  fNames,                \* const files: the page numbers of the out-<n>.png listed
  fPages,                \* const pages
  fPending,              \* how the try block was left: "return" or "throw"
  fResult,               \* what the call returned, or the exception
  fpc                    \* convertPdfToPngPages: position

normVars == <<raw, out, npc>>

loopVars == <<route, req, pc, warnings, tiles, ti, allItems, items, resp, calls, outcomes>>

pipeVars == <<urls, ui, inputUrls, web, fetched, groups, gi, stitchedTileUrls, pagePngs, ni>>

postVars == <<loopVars, pipeVars>>

resolveVars == <<rReq, rpc, rTarget, rImgs, rPdfs, rScored, rFetched, rResp>>

discoverVars == <<dEntry, dStoreId, dpc, dHtml, dFetched, dResult>>

sideVars == <<resolveVars, discoverVars>>

autoVars == <<autoStoreId, autoRuns, abortRef, autoStateByStore, autoFlyerByStore, autoModeByStore>>

scanVars == <<sHtml, sHelper, sOut, spc>>

tileVars == <<tPng, tPage, tBudget, tOut, tpc>>

keyVars == <<kA, kB, kKeys, kOut, kpc>>

gridVars == <<cUrls, cGroups, ci, cOut, cpc>>

pdfVars == <<fEntry, fPdf, fDir, fFiles, fNames, fPages, fPending, fResult, fpc>>

vars == <<normVars, postVars, sideVars, autoVars, scanVars, tileVars, keyVars, gridVars, pdfVars>>

----------------------------------------------------------------------------
(* Bounds *)

MaxStrLen == 3
MaxCapItems == 32           \* longest enumerated price string
MaxBatchTiles == 5       \* most tiles handed to the extraction loop on its own

----------------------------------------------------------------------------
(* JavaScript values and strings *)

Undef == [t |-> "undef"]
JsNull == [t |-> "null"]
JsBool == [t |-> "bool"]
NaN == [t |-> "nan"]
Infinity == [t |-> "inf"]
Str(s) == [t |-> "str", s |-> s]
Num(k) == [t |-> "num", tenths |-> 10 * k]
NumTenths(k) == [t |-> "num", tenths |-> k]

Digits == {"0", "1", "2", "3", "4", "5", "6", "7", "8", "9"}

DigitVal(c) ==
  CASE c = "0" -> 0 [] c = "1" -> 1 [] c = "2" -> 2 [] c = "3" -> 3
    [] c = "4" -> 4 [] c = "5" -> 5 [] c = "6" -> 6 [] c = "7" -> 7
    [] c = "8" -> 8 [] c = "9" -> 9

\* \s of a JavaScript regular expression, on the characters in use
WhiteSpace == {" ", "IDSP"}

RECURSIVE SeqsUpTo(_, _)
SeqsUpTo(S, n) ==
  IF n = 0 THEN {<<>>}
  ELSE LET shorter == SeqsUpTo(S, n - 1)
       IN  shorter \cup {Append(s, c) : s \in {x \in shorter : Len(x) = n - 1}, c \in S}

RECURSIVE DropWhileWs(_)
DropWhileWs(s) ==
  IF s = <<>> THEN s
  ELSE IF Head(s) \in WhiteSpace THEN DropWhileWs(Tail(s)) ELSE s

RECURSIVE DropTrailingWs(_)
DropTrailingWs(s) ==
  IF s = <<>> THEN s
  ELSE IF s[Len(s)] \in WhiteSpace THEN DropTrailingWs(SubSeq(s, 1, Len(s) - 1)) ELSE s

\* String.prototype.trim
Trim(s) == DropTrailingWs(DropWhileWs(s))

\* s.replace(/<one of cs>/g, '')
RECURSIVE RemoveChars(_, _)
RemoveChars(s, cs) ==
  IF s = <<>> THEN <<>>
  ELSE IF Head(s) \in cs THEN RemoveChars(Tail(s), cs)
       ELSE <<Head(s)>> \o RemoveChars(Tail(s), cs)

\* the text of the first match of /\d+/ in s, or <<>> when there is none
RECURSIVE TakeDigits(_)
TakeDigits(s) ==
  IF s = <<>> \/ Head(s) \notin Digits THEN <<>>
  ELSE <<Head(s)>> \o TakeDigits(Tail(s))

RECURSIVE FirstDigitRun(_)
FirstDigitRun(s) ==
  IF s = <<>> THEN <<>>
  ELSE IF Head(s) \in Digits THEN TakeDigits(s) ELSE FirstDigitRun(Tail(s))

\* Number("<digits>")
RECURSIVE DigitsToNat(_)
DigitsToNat(d) ==
  IF d = <<>> THEN 0
  ELSE 10 * DigitsToNat(SubSeq(d, 1, Len(d) - 1)) + DigitVal(d[Len(d)])

----------------------------------------------------------------------------
(* lib/flyer.ts: normalizeFlyerItem, toNumberPrice *)

NullItem == [t |-> "null"]

toNumberPrice(v) ==
  IF v.t \in {"num", "nan", "inf"} THEN v
  ELSE IF v.t # "str" THEN NaN
  ELSE LET m == FirstDigitRun(RemoveChars(v.s, {","}))
       IN  IF m = <<>> THEN NaN ELSE Num(DigitsToNat(m))

\* a ?? b
Coalesce(a, b) == IF a.t \in {"undef", "null"} THEN b ELSE a

\* typeof x === 'string' && x.trim() ? x.trim() : dflt
TrimmedOr(x, dflt) ==
  IF x.t = "str" /\ Trim(x.s) # <<>> THEN Str(Trim(x.s)) ELSE dflt

DefaultCategory == Str(<<"SO", "NO", "TA">>)

normalizeFlyerItem(r) ==
  IF r.t # "obj" THEN NullItem
  ELSE
    LET name == IF r.name.t = "str" THEN Trim(r.name.s) ELSE <<>>
        priceYen == toNumberPrice(Coalesce(Coalesce(r.priceYen, r.price), r.price_yen))
    IN  IF name = <<>> THEN NullItem
        ELSE IF priceYen.t # "num" \/ priceYen.tenths <= 0 THEN NullItem
        ELSE [t |-> "item",
              category |-> TrimmedOr(r.category, DefaultCategory),
              name |-> Str(name),
              priceYen |-> priceYen,
              unit |-> TrimmedOr(r.unit, Undef),
              notes |-> TrimmedOr(r.notes, Undef)]

\* String.prototype.toLowerCase, on the characters in use
LowerCase(c) ==
  CASE c = "A" -> "a" [] c = "B" -> "b" [] c = "C" -> "c" [] c = "G" -> "g"
    [] OTHER -> c

RECURSIVE ToLower(_)
ToLower(s) == IF s = <<>> THEN <<>> ELSE <<LowerCase(Head(s))>> \o ToLower(Tail(s))

\* the character class of makeDedupKey's second replace: ASCII and full-width
\* parentheses and brackets, corner quotes, the middle dot, commas, full stops,
\* colons and slashes
KeyPunctuation ==
  {"FW(", "FW)", "(", ")", "[", "]", "FW[", "FW]", "FWQ1", "FWQ2", "FWQ3", "FWQ4",
   "NAKAGURO", ",", "FW,", ".", "FW.", "MARU", ":", "FW:", "/", "FW/"}

\* norm of makeDedupKey
norm(s) == RemoveChars(RemoveChars(ToLower(s), WhiteSpace), KeyPunctuation)

RECURSIVE NatToDigits(_)
NatToDigits(n) ==
  IF n < 10 THEN <<CHOOSE c \in Digits : DigitVal(c) = n>>
  ELSE NatToDigits(n \div 10) \o <<CHOOSE c \in Digits : DigitVal(c) = n % 10>>

\* `${x}` of a number
NumToString(x) ==
  CASE x.t = "nan" -> <<"N", "a", "N">>
    [] x.t = "inf" -> <<"I", "n", "f", "i", "n", "i", "t", "y">>
    [] OTHER ->
         LET a == IF x.tenths < 0 THEN -x.tenths ELSE x.tenths
             sign == IF x.tenths < 0 THEN <<"-">> ELSE <<>>
             frac == IF a % 10 = 0 THEN <<>> ELSE <<".">> \o NatToDigits(a % 10)
         IN  sign \o NatToDigits(a \div 10) \o frac

makeDedupKey(it) ==
  norm(it.name.s) \o <<"|">> \o NumToString(it.priceYen) \o <<"|">>
    \o norm(IF it.unit.t = "str" THEN it.unit.s ELSE <<>>)


----------------------------------------------------------------------------
(* Inputs of normalizeFlyerItem *)

PriceAlphabet == {"1", "0", ",", "-", "a"}

\* the string 1,280 YEN ( ZEI KOMI ): a price with separators and tax text
TaxedPrice == <<"1", ",", "2", "8", "0", "YEN", "(", "ZEI", "KOMI", ")">>

PriceStrings == SeqsUpTo(PriceAlphabet, MaxStrLen) \cup {TaxedPrice}

PriceNumbers ==
  {NumTenths(k) : k \in {-1000, -5, 0, 5, 125, 980, 12800}} \cup {NaN, Infinity}

PriceInputs ==
  {Undef, JsNull, JsBool} \cup PriceNumbers \cup {Str(s) : s \in PriceStrings}

NameInputs ==
  {Undef, JsNull, Num(3), Str(<<>>), Str(<<" ">>), Str(<<"a">>), Str(<<" ", "a", "IDSP">>)}

AliasInputs == {Undef, Num(50)}

TextInputs == {Undef, Str(<<" ">>), Str(<<"g", " ">>)}

NotesInputs == {Undef, Str(<<"n">>)}

Obj(n, c, u, no, p1, p2, p3) ==
  [t |-> "obj", name |-> n, category |-> c, unit |-> u, notes |-> no,
   priceYen |-> p1, price |-> p2, price_yen |-> p3]

RawInputs ==
  {JsNull, Undef, Num(1), Str(<<"a">>)} \cup
  {Obj(n, c, u, no, p1, p2, p3) :
     n \in NameInputs, c \in TextInputs, u \in TextInputs, no \in NotesInputs,
     p1 \in PriceInputs, p2 \in AliasInputs, p3 \in AliasInputs}

----------------------------------------------------------------------------
(* SpecNorm: one call of normalizeFlyerItem *)

AutoIdle ==
  /\ autoStoreId = "" /\ autoRuns = <<>> /\ abortRef = 0
  /\ autoStateByStore = Undef /\ autoFlyerByStore = 0 /\ autoModeByStore = Undef

GridIdle == cUrls = <<>> /\ cGroups = <<>> /\ ci = 0 /\ cOut = <<>> /\ cpc = "idle"

PdfIdle ==
  /\ fEntry = "" /\ fPdf = 0 /\ fDir = "none" /\ fFiles = {} /\ fNames = <<>>
  /\ fPages = <<>> /\ fPending = "return" /\ fResult = Undef /\ fpc = "idle"

KeyIdle == kA = Undef /\ kB = Undef /\ kKeys = <<>> /\ kOut = <<>> /\ kpc = "idle"

TileIdle ==
  tPng = Undef /\ tPage = 0 /\ tBudget = Undef /\ tOut = <<>> /\ tpc = "idle"

ScanIdle == sHtml = <<>> /\ sHelper = "" /\ sOut = Undef /\ spc = "idle"

NormIdle == raw = Undef /\ out = Undef /\ npc = "idle"

NoWeb == [u \in {} |-> u]

PipeIdle ==
  /\ urls = <<>> /\ ui = 0 /\ inputUrls = <<>>
  /\ web = NoWeb /\ fetched = <<>>
  /\ groups = <<>> /\ gi = 0 /\ stitchedTileUrls = {}
  /\ pagePngs = <<>> /\ ni = 0

ResolveIdle ==
  /\ rReq = Undef /\ rpc = "idle" /\ rTarget = Undef
  /\ rImgs = <<>> /\ rPdfs = <<>> /\ rScored = <<>>
  /\ rFetched = <<>> /\ rResp = Undef

DiscoverIdle ==
  /\ dEntry = "none" /\ dStoreId = "" /\ dpc = "idle"
  /\ dHtml = Undef /\ dFetched = <<>> /\ dResult = Undef

SideIdle == ResolveIdle /\ DiscoverIdle

PostIdle ==
  /\ route = "none" /\ req = Undef /\ pc = "idle"
  /\ warnings = <<>> /\ tiles = <<>> /\ ti = 0
  /\ allItems = <<>> /\ items = <<>> /\ resp = Undef
  /\ calls = <<>> /\ outcomes = <<>>
  /\ PipeIdle

NormInit ==
  /\ raw \in RawInputs /\ out = Undef /\ npc = "call"
  /\ PostIdle /\ SideIdle /\ AutoIdle /\ ScanIdle /\ TileIdle /\ KeyIdle /\ GridIdle /\ PdfIdle

Normalize ==
  /\ npc = "call"
  /\ out' = normalizeFlyerItem(raw)
  /\ npc' = "done"
  /\ UNCHANGED <<raw, postVars, sideVars, autoVars, scanVars, tileVars, keyVars, gridVars, pdfVars>>

NormNext == Normalize

SpecNorm == NormInit /\ [][NormNext]_vars

----------------------------------------------------------------------------
(* The extraction loop and the deduplication (extract-url/route.ts 726-770, *)
(* extract/route.ts 215-258)                                                *)

\* What one call of the extraction capability does:
\*   "error"       generateContent or response.text() throws
\*   "unparseable" the text is parsed neither by JSON.parse nor by safeParseJsonFromModel
\*   "json"        the text parses; isArray is Array.isArray(parsed?.items) and
\*                 items is parsed.items when it is an array
GeminiError == [kind |-> "error", isArray |-> FALSE, items |-> <<>>]
GeminiUnparseable == [kind |-> "unparseable", isArray |-> FALSE, items |-> <<>>]
GeminiJson(body) == [kind |-> "json", isArray |-> TRUE, items |-> body]
GeminiJsonNoItems == [kind |-> "json", isArray |-> FALSE, items |-> <<>>]

\* callGeminiForTile: whether it threw, and the itemsRaw it returned
callGeminiForTile(o) ==
  IF o.kind # "json" THEN [threw |-> TRUE, itemsRaw |-> <<>>]
  ELSE [threw |-> FALSE,
        itemsRaw |-> IF o.isArray THEN o.items ELSE <<>>]

\* for (const r of itemsRaw) { const it = normalizeFlyerItem(r); if (it) allItems.push(it); }
RECURSIVE NormalizeAll(_)
NormalizeAll(rs) ==
  IF rs = <<>> THEN <<>>
  ELSE LET it == normalizeFlyerItem(Head(rs))
       IN  (IF it = NullItem THEN <<>> ELSE <<it>>) \o NormalizeAll(Tail(rs))

TileWarning(i, n) == [kind |-> "tile", tile |-> i, of |-> n]

\* a loop that gives up at the first tile that fails
ExtractTileAbortOnFailure(o) ==
  /\ pc = "extract"
  /\ ti < Len(tiles)
  /\ calls' = Append(calls, ti + 1)
  /\ outcomes' = Append(outcomes, o)
  /\ LET r == callGeminiForTile(o)
     IN  IF r.threw
         THEN /\ warnings' = Append(warnings, TileWarning(ti + 1, Len(tiles)))
              /\ ti' = Len(tiles)
              /\ UNCHANGED allItems
         ELSE /\ allItems' = allItems \o NormalizeAll(r.itemsRaw)
              /\ ti' = ti + 1
              /\ UNCHANGED warnings
  /\ UNCHANGED <<route, req, pc, tiles, items, resp>>

\* one iteration of for (let i = 0; i < tiles.length; i++) { try ... catch ... }
ExtractTileWith(o) ==
  /\ pc = "extract"
  /\ ti < Len(tiles)
  /\ calls' = Append(calls, ti + 1)
  /\ outcomes' = Append(outcomes, o)
  /\ LET r == callGeminiForTile(o)
     IN  IF r.threw
         THEN /\ warnings' = Append(warnings, TileWarning(ti + 1, Len(tiles)))
              /\ UNCHANGED allItems
         ELSE /\ allItems' = allItems \o NormalizeAll(r.itemsRaw)
              /\ UNCHANGED warnings
  /\ ti' = ti + 1
  /\ UNCHANGED <<route, req, pc, tiles, items, resp>>

\* Map.prototype.set on a map kept as its entries in insertion order
RECURSIVE MapSetKeepFirst(_, _, _)
MapSetKeepFirst(m, k, v) ==
  IF m = <<>> THEN <<[k |-> k, v |-> v]>>
  ELSE IF Head(m).k = k THEN m
       ELSE <<Head(m)>> \o MapSetKeepFirst(Tail(m), k, v)

RECURSIVE MapSet(_, _, _)
MapSet(m, k, v) ==
  IF m = <<>> THEN <<[k |-> k, v |-> v]>>
  ELSE IF Head(m).k = k THEN <<[k |-> k, v |-> v]>> \o Tail(m)
       ELSE <<Head(m)>> \o MapSet(Tail(m), k, v)

\* for (const it of allItems) map.set(makeDedupKey(it), it)
RECURSIVE DedupInto(_, _)
DedupInto(m, its) ==
  IF its = <<>> THEN m
  ELSE DedupInto(MapSet(m, makeDedupKey(Head(its)), Head(its)), Tail(its))

\* Array.from(map.values())
MapValues(m) == [i \in 1..Len(m) |-> m[i].v]

IngredientCap == 30

Take(s, n) == SubSeq(s, 1, IF Len(s) < n THEN Len(s) ELSE n)

OkResponse(its, ws) ==
  [t |-> "response", status |-> 200, items |-> its, count |-> Len(its), warnings |-> ws]

\* an answer that never caps
RespondUncapped ==
  /\ pc = "extract"
  /\ ti = Len(tiles)
  /\ items' = MapValues(DedupInto(<<>>, allItems))
  /\ resp' = OkResponse(MapValues(DedupInto(<<>>, allItems)), warnings)
  /\ pc' = "done"
  /\ UNCHANGED <<route, req, warnings, tiles, ti, allItems, calls, outcomes>>

\* after the loop: deduplicate, cap (extract-url, mode ingredients), answer
Respond ==
  /\ pc = "extract"
  /\ ti = Len(tiles)
  /\ LET deduped == MapValues(DedupInto(<<>>, allItems))
         limited == IF route = "extract-url" /\ req.mode = "ingredients"
                    THEN Take(deduped, IngredientCap) ELSE deduped
     IN  /\ items' = deduped
         /\ resp' = OkResponse(limited, warnings)
  /\ pc' = "done"
  /\ UNCHANGED <<route, req, warnings, tiles, ti, allItems, calls, outcomes>>

----------------------------------------------------------------------------
(* SpecBatch: the loop on its own, entered with 1..MaxBatchTiles tiles *)

BatchRawA == Obj(Str(<<"a", "b">>), Str(<<"x">>), Undef, Undef, Num(100), Undef, Undef)
\* the same key as BatchRawA, other fields
BatchRawA2 == Obj(Str(<<"A", " ", "b">>), Undef, Undef, Str(<<"n">>), Undef, Str(<<"1", "0", "0">>), Undef)
\* no price: dropped by normalizeFlyerItem
BatchRawBad == Obj(Str(<<"c">>), Undef, Undef, Undef, Num(0), Undef, Undef)
BatchRawC == Obj(Str(<<"c">>), Undef, Str(<<"g">>), Undef, Undef, Undef, Num(200))

BatchOutcomes ==
  {GeminiError, GeminiUnparseable, GeminiJsonNoItems,
   GeminiJson(<<BatchRawA>>), GeminiJson(<<BatchRawA2, BatchRawBad>>),
   GeminiJson(<<BatchRawC, BatchRawA>>)}

Tile(p, k) == [pageIndex |-> p, tileIndexInPage |-> k]

BatchInit ==
  /\ NormIdle /\ AutoIdle /\ ScanIdle /\ TileIdle /\ KeyIdle /\ GridIdle /\ PdfIdle /\ SideIdle /\ SideIdle
  /\ route \in {"extract-url", "extract"}
  /\ req \in {[mode |-> m] : m \in {"all", "ingredients"}}
  /\ pc = "extract"
  /\ warnings = <<>>
  /\ \E n \in 1..MaxBatchTiles : tiles = [k \in 1..n |-> Tile(0, k - 1)]
  /\ ti = 0 /\ allItems = <<>> /\ items = <<>> /\ resp = Undef
  /\ calls = <<>> /\ outcomes = <<>>
  /\ PipeIdle

BatchTile == \E o \in BatchOutcomes : ExtractTileWith(o)

BatchNext ==
  \/ BatchTile /\ UNCHANGED <<normVars, autoVars, scanVars, tileVars, keyVars, gridVars, pdfVars, pipeVars, sideVars>>
  \/ Respond /\ UNCHANGED <<normVars, autoVars, scanVars, tileVars, keyVars, gridVars, pdfVars, pipeVars, sideVars>>

SpecBatch == BatchInit /\ [][BatchNext]_vars

----------------------------------------------------------------------------
(* SpecSeq: the same loop with the start and the return of each call of    *)
(* callGeminiForTile as two steps; pc is "awaiting" while the loop is      *)
(* suspended at the await.  calls records the starts, outcomes the returns *)

SeqOutcomes == {GeminiError, GeminiJson(<<BatchRawA>>)}

\* a loop that starts the next call without awaiting the one in flight
SeqStartEager ==
  /\ pc \in {"extract", "awaiting"}
  /\ Len(calls) < Len(tiles)
  /\ calls' = Append(calls, Len(calls) + 1)
  /\ pc' = "awaiting"
  /\ UNCHANGED <<route, req, warnings, tiles, ti, allItems, items, resp, outcomes>>

\* for (let i = 0; i < tiles.length; i++) { ... callGeminiForTile(...): the
\* call for tiles[i] is made
SeqStart ==
  /\ pc = "extract"
  /\ ti < Len(tiles)
  /\ calls' = Append(calls, ti + 1)
  /\ pc' = "awaiting"
  /\ UNCHANGED <<route, req, warnings, tiles, ti, allItems, items, resp, outcomes>>

\* the awaited call returns or throws; the rest of the iteration and i++
SeqSettle ==
  /\ pc = "awaiting"
  /\ \E o \in SeqOutcomes :
       /\ outcomes' = Append(outcomes, o)
       /\ LET r == callGeminiForTile(o)
          IN  IF r.threw
              THEN /\ warnings' = Append(warnings, TileWarning(ti + 1, Len(tiles)))
                   /\ UNCHANGED allItems
              ELSE /\ allItems' = allItems \o NormalizeAll(r.itemsRaw)
                   /\ UNCHANGED warnings
  /\ ti' = ti + 1
  /\ pc' = "extract"
  /\ UNCHANGED <<route, req, tiles, items, resp, calls>>

SeqNext ==
  \/ SeqStart /\ UNCHANGED <<normVars, autoVars, scanVars, tileVars, keyVars, gridVars, pdfVars, pipeVars, sideVars>>
  \/ SeqSettle /\ UNCHANGED <<normVars, autoVars, scanVars, tileVars, keyVars, gridVars, pdfVars, pipeVars, sideVars>>
  \/ Respond /\ UNCHANGED <<normVars, autoVars, scanVars, tileVars, keyVars, gridVars, pdfVars, pipeVars, sideVars>>

SpecSeq == BatchInit /\ [][SeqNext]_vars

----------------------------------------------------------------------------
(* SpecCap: the end of POST with up to MaxCapItems items from one tile *)

\* a tile answer
CapRaw(i, notes) == Obj(Str(NatToDigits(i)), Undef, Undef, notes, Num(100), Undef, Undef)

ManyRaw(n) == [i \in 1..n |-> CapRaw(i, Undef)]

\* n different items, and the same followed by item 1 again with a note
CapOutcomes ==
  {GeminiJson(ManyRaw(n)) : n \in 0..MaxCapItems}
  \cup {GeminiJson(Append(ManyRaw(n), CapRaw(1, Str(<<"n">>)))) : n \in 1..MaxCapItems}

CapInit ==
  /\ NormIdle /\ AutoIdle /\ ScanIdle /\ TileIdle /\ KeyIdle /\ GridIdle /\ PdfIdle /\ SideIdle
  /\ route \in {"extract-url", "extract"}
  /\ req \in {[mode |-> m] : m \in {"all", "ingredients", "recipes"}}
  /\ pc = "extract"
  /\ warnings = <<>>
  /\ tiles = <<Tile(0, 0)>>
  /\ ti = 0 /\ allItems = <<>> /\ items = <<>> /\ resp = Undef
  /\ calls = <<>> /\ outcomes = <<>>
  /\ PipeIdle

CapTile == \E o \in CapOutcomes : ExtractTileWith(o)

CapNext ==
  \/ CapTile /\ UNCHANGED <<normVars, autoVars, scanVars, tileVars, keyVars, gridVars, pdfVars, pipeVars, sideVars>>
  \/ Respond /\ UNCHANGED <<normVars, autoVars, scanVars, tileVars, keyVars, gridVars, pdfVars, pipeVars, sideVars>>

SpecCap == CapInit /\ [][CapNext]_vars

----------------------------------------------------------------------------
(* extract-url/route.ts: URLs, the allowlist, the URL helpers               *)
(*                                                                          *)
(* A URL string is a record: scheme and host as new URL() reads them; kind  *)
(* is what its path looks like:                                             *)
(*   "page"     no image or pdf extension                                   *)
(*   "img"      <n>.jpg                                                     *)
(*   "pdf"      <n>.pdf                                                     *)
(*   "tile"     <n>_800_<idx>.jpg, a Shufoo grid tile of page n             *)
(*   "rctile"   f<n>_<idx>.jpg, idx written with two digits: a tile named   *)
(*              by its row and its column                                   *)
(*   "leaflet"  /images/bargain_office_leaflets/<seg>/<n>.jpg               *)
(*   "invalid"  a string new URL() rejects                                  *)
(*   "nonstring" an array element that is no string                         *)
(* q is the query string, thumb whether the path contains "thumb".          *)

Url(scheme, host, kind, n, idx, seg, q, thumb) ==
  [scheme |-> scheme, host |-> host, kind |-> kind, n |-> n, idx |-> idx,
   seg |-> seg, q |-> q, thumb |-> thumb]

PageUrl(host) == Url("https", host, "page", 0, 0, "", "", FALSE)
ImgUrl(host, n) == Url("https", host, "img", n, 0, "", "", FALSE)
PdfUrl(host, n) == Url("https", host, "pdf", n, 0, "", "", FALSE)
TileUrl(host, n, idx) == Url("https", host, "tile", n, idx, "", "", FALSE)
RcTileUrl(host, n, rc) == Url("https", host, "rctile", n, rc, "", "", FALSE)
LeafletUrl(host, seg, n) == Url("https", host, "leaflet", n, 0, seg, "", FALSE)
InvalidUrl == Url("", "", "invalid", 0, 0, "", "", FALSE)
NonStringUrl == Url("", "", "nonstring", 0, 0, "", "", FALSE)

ConfiguredStores == {"aoba_oshima", "life_kawasaki_oshima", "itoyokado_kawasaki"}

ALLOWLIST(storeId) ==
  CASE storeId = "aoba_oshima" -> {"www.bicrise.com", "bicrise.com"}
    [] storeId = "life_kawasaki_oshima" ->
         {"store.lifecorp.jp", "meocloud-image.s3.ap-northeast-1.amazonaws.com",
          "image.tokubai.co.jp"}
    [] storeId = "itoyokado_kawasaki" ->
         {"stores.itoyokado.co.jp", "asp.shufoo.net", "s-cmn.shufoo.net", "cmn.shufoo.net",
          "www.shufoo.net", "ipqcache1.shufoo.net", "ipqcache2.shufoo.net"}

\* property names every object literal inherits from Object.prototype
ObjectPrototypeKeys == {"toString", "constructor"}

\* storeId in ALLOWLIST
StoreInAllowlist(storeId) == storeId \in ConfiguredStores \cup ObjectPrototypeKeys

\* an allowlist check that looks at the scheme only
assertAllowedUrlSchemeOnly(storeId, u) ==
  /\ u.kind \notin {"invalid", "nonstring"}
  /\ u.scheme \in {"https", "http"}
  /\ storeId \in ConfiguredStores

\* assertAllowedUrl returns (TRUE) or throws (FALSE); for an inherited key
\* ALLOWLIST[storeId] is no array and .includes throws
assertAllowedUrl(storeId, u) ==
  /\ u.kind \notin {"invalid", "nonstring"}
  /\ u.scheme \in {"https", "http"}
  /\ storeId \in ConfiguredStores
  /\ u.host \in ALLOWLIST(storeId)

isPdfByTypeOrUrl(contentType, u) ==
  contentType = "application/pdf" \/ (u.kind = "pdf" /\ u.q = "")

looksLikeImageUrl(u) == u.kind \in {"img", "tile", "rctile", "leaflet"}

HostEndsWithShufooNet(h) ==
  h \in {"asp.shufoo.net", "s-cmn.shufoo.net", "cmn.shufoo.net", "www.shufoo.net",
         "ipqcache1.shufoo.net", "ipqcache2.shufoo.net", "shufoo.net"}

normalizeShufooImageUrl(u) ==
  IF u.kind # "invalid" /\ HostEndsWithShufooNet(u.host) /\ u.q = "thumb-size=m"
  THEN [u EXCEPT !.q = "thumb-size=l"] ELSE u

QueryHasThumb(q) == q \in {"thumb-size=m", "thumb-size=l"}

looksLikeThumbUrl(u) == u.thumb \/ QueryHasThumb(u.q)

scoreShufooImage(u) ==
  (IF u.host \in {"s-cmn.shufoo.net", "cmn.shufoo.net"} THEN 90 ELSE 0)
  + (IF HostEndsWithShufooNet(u.host) THEN 30 ELSE 0)
  + (IF u.thumb \/ QueryHasThumb(u.q) THEN -120 ELSE 0)
  + (IF u.q = "thumb-size=m" THEN -120 ELSE 0)
  + (IF looksLikeImageUrl(u) /\ u.q = "" THEN 20 ELSE 0)

HostIncludesTokubai(h) == h \in {"image.tokubai.co.jp", "widgets.tokubai.co.jp"}

toTokubaiHighRes(u) ==
  IF u.kind = "leaflet" /\ HostIncludesTokubai(u.host)
  THEN [u EXCEPT !.seg = "o=true"] ELSE u

isLifeLeafletUrl(u) == u.kind = "leaflet" /\ u.host = "image.tokubai.co.jp"

\* expandShufooTileUrls(urlStr) ?? []
expandShufooTileUrls(u) ==
  IF u.kind # "tile" THEN <<>>
  ELSE [k \in 1..8 |->
          Url(u.scheme, u.host, "tile", u.n + ((k - 1) \div 4), (k - 1) % 4, "", "", u.thumb)]

\* parseShufooTileUrl: null, or the key and the tile
ParsesAsTile(u) == (u.kind = "tile" /\ u.idx \in 0..3) \/ u.kind = "rctile"

\* the key: origin, directory and <page>_<size>, or origin, directory and
\* the base name before _<row><col>
TileKey(u) == <<u.kind, u.scheme, u.host, u.thumb, u.n>>

\* the tile; page is -1 for the null of a tile named by row and column,
\* which is what the sort of pickShufooTileGroups makes of it
ShufooTile(u) ==
  IF u.kind = "tile"
  THEN [url |-> u, row |-> u.idx \div 2, col |-> u.idx % 2, page |-> u.n]
  ELSE [url |-> u, row |-> u.idx \div 10, col |-> u.idx % 10, page |-> -1]

\* Array.prototype.sort, a stable sort, on entries [k, v] by ascending k
RECURSIVE InsertStable(_, _)
InsertStable(sorted, x) ==
  IF sorted = <<>> THEN <<x>>
  ELSE IF x.k < sorted[Len(sorted)].k
       THEN Append(InsertStable(SubSeq(sorted, 1, Len(sorted) - 1), x), sorted[Len(sorted)])
       ELSE Append(sorted, x)

RECURSIVE SortStable(_)
SortStable(xs) ==
  IF xs = <<>> THEN <<>>
  ELSE InsertStable(SortStable(SubSeq(xs, 1, Len(xs) - 1)), xs[Len(xs)])

Values(es) == [i \in 1..Len(es) |-> es[i].v]

\* inputUrls.flatMap((u) => expandShufooTileUrls(u) ?? [])
RECURSIVE ExpandAll(_)
ExpandAll(us) ==
  IF us = <<>> THEN <<>> ELSE expandShufooTileUrls(Head(us)) \o ExpandAll(Tail(us))

\* the Map of pickShufooTileGroups, as entries in insertion order
RECURSIVE GroupTiles(_, _)
GroupTiles(m, us) ==
  IF us = <<>> THEN m
  ELSE LET u == Head(us)
           at == {i \in 1..Len(m) : m[i].key = TileKey(u)}
       IN  IF ~ParsesAsTile(u) THEN GroupTiles(m, Tail(us))
           ELSE IF at = {}
                THEN GroupTiles(Append(m, [key |-> TileKey(u), tiles |-> <<ShufooTile(u)>>]), Tail(us))
                ELSE LET i == CHOOSE j \in at : TRUE
                     IN  GroupTiles([m EXCEPT ![i].tiles = Append(@, ShufooTile(u))], Tail(us))

\* grouping that keeps the grids of one tile
pickShufooTileGroupsWithSingles(us) ==
  LET list == GroupTiles(<<>>, us)
  IN  Values(SortStable([i \in 1..Len(list) |-> [k |-> list[i].tiles[1].page, v |-> list[i]]]))

pickShufooTileGroups(us) ==
  LET list == SelectSeq(GroupTiles(<<>>, us), LAMBDA g : Len(g.tiles) >= 2)
      bySize == Values(SortStable([i \in 1..Len(list) |->
                                     [k |-> -Len(list[i].tiles), v |-> list[i]]]))
  IN  Values(SortStable([i \in 1..Len(bySize) |->
                           [k |-> bySize[i].tiles[1].page, v |-> bySize[i]]]))

\* uniq: Array.from(new Set(xs))
RECURSIVE uniq(_)
uniq(xs) ==
  IF xs = <<>> THEN <<>>
  ELSE LET init == uniq(SubSeq(xs, 1, Len(xs) - 1))
           x == xs[Len(xs)]
       IN  IF \E i \in 1..Len(init) : init[i] = x THEN init ELSE Append(init, x)

\* the URLs resolvePageToAssetUrls returns for a page whose HTML holds the
\* og:image/twitter:image URLs meta and the other URLs links, and the warning
\* it pushes
ResolvedAssets(storeId, meta, links) ==
  LET m == [i \in 1..Len(SelectSeq(meta, looksLikeImageUrl)) |->
              normalizeShufooImageUrl(SelectSeq(meta, looksLikeImageUrl)[i])]
      all == uniq(m \o links)
      liked == SelectSeq(all, looksLikeImageUrl)
      imgs == SelectSeq([i \in 1..Len(liked) |-> normalizeShufooImageUrl(liked[i])],
                        LAMBDA u : assertAllowedUrl(storeId, u))
      sorted == Values(SortStable([i \in 1..Len(imgs) |->
                                     [k |-> -scoreShufooImage(imgs[i]), v |-> imgs[i]]]))
      nonThumbs == SelectSeq(sorted, LAMBDA u : ~looksLikeThumbUrl(u))
  IN  IF storeId = "itoyokado_kawasaki"
      THEN [urls |-> Take(IF nonThumbs # <<>> THEN nonThumbs ELSE sorted, 3),
            warn |-> IF sorted = <<>> THEN <<[kind |-> "no_large_image"]>>
                     ELSE IF nonThumbs = <<>> THEN <<[kind |-> "thumbs_only"]>>
                     ELSE <<>>]
      ELSE [urls |-> Take(sorted, 3), warn |-> <<>>]

----------------------------------------------------------------------------
(* extract-url/route.ts: what a fetch returns                               *)
(*                                                                          *)
(* web remembers, per URL, what its server answers during the request:      *)
(*   "fail"            the fetch rejects or the status is not ok            *)
(*   "html"            an HTML page holding the URLs meta and links         *)
(*   "html_once"       the same on the first fetch, a failure afterwards    *)
(*   "other"           a body that is neither HTML, image nor PDF           *)
(*   "image"           an image of w x h pixels                             *)
(*   "pdf"             a PDF that rasterizes to `pages` pages               *)
(*   "pdf_rasterfail"  a PDF on which pdftoppm fails                        *)
(*   "pdf_badpage"     a PDF one page of which sharp cannot process         *)

Resp(k, meta, links, w, h, pages) ==
  [k |-> k, meta |-> meta, links |-> links, w |-> w, h |-> h, pages |-> pages]

FailResp == Resp("fail", <<>>, <<>>, 0, 0, 0)
OtherResp == Resp("other", <<>>, <<>>, 0, 0, 0)
HtmlResp(meta, links) == Resp("html", meta, links, 0, 0, 0)
HtmlOnceResp(meta, links) == Resp("html_once", meta, links, 0, 0, 0)
ImageResp(w, h) == Resp("image", <<>>, <<>>, w, h, 0)
PdfResp(n) == Resp("pdf", <<>>, <<>>, 0, 0, n)
PdfRasterFailResp == Resp("pdf_rasterfail", <<>>, <<>>, 0, 0, 0)
PdfBadPageResp == Resp("pdf_badpage", <<>>, <<>>, 0, 0, 1)

\* what the n-th fetch of u returns when its server answers r
Served(r, u) ==
  IF r.k = "html_once"
  THEN IF \E i \in 1..Len(fetched) : fetched[i] = u THEN FailResp
       ELSE HtmlResp(r.meta, r.links)
  ELSE r

contentType(r) ==
  CASE r.k = "html" -> "text/html"
    [] r.k = "image" -> "image/jpeg"
    [] r.k \in {"pdf", "pdf_rasterfail", "pdf_badpage"} -> "application/pdf"
    [] OTHER -> "application/json"

isHtmlByTypeOrSniff(r) == r.k = "html"

PageBitmap(w, h, ok, src) == [w |-> w, h |-> h, ok |-> ok, src |-> src]

\* pixels of a 5.5in x 4in sheet as pdftoppm renders it at 200 dpi
PdfPageSize == [w |-> 1100, h |-> 800]

----------------------------------------------------------------------------
(* extract-url/route.ts: tileImagePng and the tiling loop of POST *)

TileSize == 1024
Overlap == 96
DefaultMaxTiles == 200

\* n >= x and x - n on JavaScript numbers, n a length
JsGe(n, x) == x.t = "num" /\ 10 * n >= x.tenths
JsSub(x, n) == IF x.t = "num" THEN NumTenths(x.tenths - 10 * n) ELSE x

ExtractionTile(p, k, left, top, w, h) ==
  [pageIndex |-> p, tileIndexInPage |-> k, left |-> left, top |-> top,
   width |-> w, height |-> h]

Min(a, b) == IF a < b THEN a ELSE b
Max(a, b) == IF a > b THEN a ELSE b

\* the two nested for loops of tileImagePng, from (top, left) on
RECURSIVE TileLoop(_, _, _, _, _, _, _, _, _)
TileLoop(w, h, top, left, acc, pageIndex, tileSize, overlap, maxTilesTotal) ==
  LET step == Max(1, tileSize - overlap)
  IN  IF top >= h THEN acc
      ELSE IF left >= w
           THEN TileLoop(w, h, top + step, 0, acc, pageIndex, tileSize, overlap, maxTilesTotal)
           ELSE LET t == ExtractionTile(pageIndex, Len(acc), left, top,
                                        Min(tileSize, w - left), Min(tileSize, h - top))
                    acc2 == Append(acc, t)
                IN  IF JsGe(Len(acc2), maxTilesTotal) THEN acc2
                    ELSE TileLoop(w, h, top, left + step, acc2, pageIndex, tileSize,
                                  overlap, maxTilesTotal)

\* tiling that steps by the whole window
tileImagePngNoOverlap(png, pageIndex, tileSize, overlap, maxTilesTotal) ==
  IF png.w = 0 \/ png.h = 0 THEN <<>>
  ELSE TileLoop(png.w, png.h, 0, 0, <<>>, pageIndex, tileSize, 0, maxTilesTotal)

tileImagePng(png, pageIndex, tileSize, overlap, maxTilesTotal) ==
  IF png.w = 0 \/ png.h = 0 THEN <<>>
  ELSE TileLoop(png.w, png.h, 0, 0, <<>>, pageIndex, tileSize, overlap, maxTilesTotal)

\* for (let i = 0; i < pagePngs.length; i++) { ... }: the tiles, or the
\* exception of the sharp call that fails on a page
RECURSIVE TilePages(_, _, _, _)
TilePages(pages, i, acc, maxTilesTotal) ==
  IF i > Len(pages) THEN [threw |-> FALSE, tiles |-> acc]
  ELSE IF ~pages[i].ok THEN [threw |-> TRUE, tiles |-> acc]
  ELSE LET acc2 == acc \o tileImagePng(pages[i], i - 1, TileSize, Overlap,
                                       JsSub(maxTilesTotal, Len(acc)))
       IN  IF JsGe(Len(acc2), maxTilesTotal) THEN [threw |-> FALSE, tiles |-> acc2]
           ELSE TilePages(pages, i + 1, acc2, maxTilesTotal)

\* Number(body?.maxTiles ?? process.env.FLYER_MAX_TILES ?? '200')
MaxTilesOf(r) ==
  LET v == r.maxTiles
  IN  IF v.t \in {"undef", "null"} THEN Num(DefaultMaxTiles)
      ELSE IF v.t \in {"num", "nan", "inf"} THEN v
      ELSE IF v.t = "str" /\ \A i \in 1..Len(v.s) : v.s[i] \in Digits THEN Num(DigitsToNat(v.s))
      ELSE NaN

----------------------------------------------------------------------------
(* Spec: one POST to the extract-url route *)

Warning(kind) == [kind |-> kind]
UrlWarning(kind, u) == [kind |-> kind, url |-> u]

ErrorResponse(status) == [t |-> "error", status |-> status]
\* an exception that leaves the handler
Exception == [t |-> "exception"]

\* a request: whether GEMINI_API_KEY is set, and the fields of the body; a
\* missing storeId is "", urls is the value of body.urls and url of body.url
Request(apiKey, storeId, us, u, mode, maxTiles) ==
  [apiKey |-> apiKey, storeId |-> storeId, urls |-> us, url |-> u, mode |-> mode,
   maxTiles |-> maxTiles]

NoUrls == [t |-> "undef", a |-> <<>>]
NotAnArray == [t |-> "str", a |-> <<>>]
UrlArray(a) == [t |-> "array", a |-> a]
NoUrlField == [t |-> "undef", u |-> InvalidUrl]
UrlField(u) == [t |-> "str", u |-> u]

\* body?.urls ?? (body?.url ? [body.url] : [])
EffectiveUrls(r) ==
  IF r.urls.t # "undef" THEN r.urls
  ELSE IF r.url.t # "undef" THEN UrlArray(<<r.url.u>>)
  ELSE UrlArray(<<>>)

\* Array.isArray(urls) && urls.length > 0 && typeof urls[0] === 'string'
UrlsAccepted(x) == x.t = "array" /\ Len(x.a) > 0 /\ x.a[1].kind # "nonstring"

\* lines 567-592
Validate ==
  /\ pc = "start"
  /\ IF ~req.apiKey
     THEN resp' = ErrorResponse(500) /\ pc' = "done" /\ UNCHANGED <<urls, ui>>
     ELSE IF req.storeId = "" \/ ~StoreInAllowlist(req.storeId)
     THEN resp' = ErrorResponse(400) /\ pc' = "done" /\ UNCHANGED <<urls, ui>>
     ELSE IF ~UrlsAccepted(EffectiveUrls(req))
     THEN resp' = ErrorResponse(400) /\ pc' = "done" /\ UNCHANGED <<urls, ui>>
     ELSE /\ urls' = EffectiveUrls(req).a
          /\ ui' = 1
          /\ pc' = "resolve"
          /\ UNCHANGED resp
  /\ UNCHANGED <<route, req, warnings, tiles, ti, allItems, items, calls, outcomes>>
  /\ UNCHANGED <<inputUrls, web, fetched, groups, gi, stitchedTileUrls, pagePngs, ni>>

\* a host on no allowlist
OtherHost == "evil.example"

\* the <meta> image URLs and the other URLs a store's page may hold
PageContents(storeId) ==
  CASE storeId = "aoba_oshima" ->
         {<< <<>>, <<>> >>,
          << <<>>, <<ImgUrl("www.bicrise.com", 1), ImgUrl(OtherHost, 1),
                    PdfUrl("www.bicrise.com", 1)>> >>}
    [] storeId = "life_kawasaki_oshima" ->
         {<< <<>>, <<ImgUrl("store.lifecorp.jp", 1)>> >>,
          << <<>>, <<LeafletUrl("image.tokubai.co.jp", "w=300", 1),
                    LeafletUrl("widgets.tokubai.co.jp", "w=300", 1)>> >>}
    [] storeId = "itoyokado_kawasaki" ->
         {<< <<>>, <<PageUrl("asp.shufoo.net")>> >>,
          << <<>>, <<TileUrl("ipqcache1.shufoo.net", 3, 0)>> >>,
          << <<ImgUrl("www.shufoo.net", 1)>>,
             <<Url("https", "s-cmn.shufoo.net", "img", 2, 0, "", "thumb-size=m", FALSE),
               ImgUrl(OtherHost, 1)>> >>,
          << <<>>, <<Url("https", "s-cmn.shufoo.net", "img", 2, 0, "", "thumb-size=m", FALSE)>> >>}
    [] OTHER -> {<< <<>>, <<>> >>}

SmallImage == ImageResp(800, 600)
GridTileImage == ImageResp(400, 300)
WideImage == ImageResp(1100, 600)

\* what the server of u may answer
ResponsesFor(storeId, u) ==
  CASE u.kind = "page" ->
         {FailResp, OtherResp}
         \cup {HtmlResp(c[1], c[2]) : c \in PageContents(storeId)}
         \cup {HtmlOnceResp(c[1], c[2]) : c \in PageContents(storeId)}
    [] u.kind = "pdf" ->
         {FailResp, SmallImage, PdfResp(0), PdfResp(1), PdfRasterFailResp, PdfBadPageResp}
    [] u.kind = "tile" -> {FailResp, GridTileImage}
    [] OTHER -> {FailResp, OtherResp, SmallImage, WideImage}

\* the answer to a fetch of u: the one web remembers, or a new one
FetchChoices(u) ==
  IF u \in DOMAIN web THEN {web[u]} ELSE ResponsesFor(req.storeId, u)

Remember(w, u, r) == IF u \in DOMAIN w THEN w ELSE w @@ (u :> r)

\* one iteration of the pre-resolution loop, lines 596-620
PreResolveUrl ==
  /\ pc = "resolve"
  /\ ui <= Len(urls)
  /\ LET u == urls[ui]
     IN  IF ~assertAllowedUrl(req.storeId, u)
         THEN /\ warnings' = Append(warnings, UrlWarning("resolve_failed", u))
              /\ UNCHANGED <<inputUrls, web, fetched>>
         ELSE IF isPdfByTypeOrUrl("", u) \/ looksLikeImageUrl(u)
         THEN /\ inputUrls' = Append(inputUrls, u)
              /\ UNCHANGED <<warnings, web, fetched>>
         ELSE \E r \in FetchChoices(u) :
                LET first == Served(r, u)
                IN  /\ web' = Remember(web, u, r)
                    /\ IF first.k = "fail"
                       THEN /\ fetched' = Append(fetched, u)
                            /\ warnings' = Append(warnings, UrlWarning("resolve_failed", u))
                            /\ UNCHANGED inputUrls
                       ELSE IF ~isHtmlByTypeOrSniff(first)
                       THEN /\ fetched' = Append(fetched, u)
                            /\ warnings' = Append(warnings, UrlWarning("unsupported", u))
                            /\ UNCHANGED inputUrls
                       ELSE \* resolvePageToAssetUrls: checks and fetches the page again
                            /\ fetched' = fetched \o <<u, u>>
                            /\ IF r.k = "html_once"
                               THEN /\ warnings' = Append(warnings, UrlWarning("resolve_failed", u))
                                    /\ UNCHANGED inputUrls
                               ELSE LET a == ResolvedAssets(req.storeId, r.meta, r.links)
                                    IN  IF a.urls # <<>>
                                        THEN /\ inputUrls' = inputUrls \o a.urls
                                             /\ warnings' = warnings \o a.warn
                                        ELSE /\ warnings' = (warnings \o a.warn)
                                                            \o <<UrlWarning("unresolved", u)>>
                                             /\ UNCHANGED inputUrls
  /\ ui' = ui + 1
  /\ UNCHANGED <<route, req, pc, tiles, ti, allItems, items, resp, calls, outcomes>>
  /\ UNCHANGED <<urls, groups, gi, stitchedTileUrls, pagePngs, ni>>

\* a summary placed before the warnings collected so far
SummaryResponseFirst(ws, kind) == OkResponse(<<>>, <<Warning(kind)>> \o ws)

\* the early answers of lines 622-632, 692-702 and 714-724: no item, and
\* warnings: [...warnings, <summary>]
SummaryResponse(ws, kind) == OkResponse(<<>>, Append(ws, Warning(kind)))

\* lines 622-652: no input left, or tile expansion, high-resolution rewrite
\* and the grouping of the grid tiles
AfterResolve ==
  /\ pc = "resolve"
  /\ ui > Len(urls)
  /\ IF inputUrls = <<>>
     THEN /\ resp' = SummaryResponse(warnings, "no_input")
          /\ pc' = "done"
          /\ UNCHANGED <<inputUrls, groups, gi, ni>>
     ELSE LET expanded == IF req.storeId = "itoyokado_kawasaki"
                          THEN inputUrls \o ExpandAll(inputUrls) ELSE inputUrls
              highRes == [i \in 1..Len(expanded) |-> toTokubaiHighRes(expanded[i])]
              final == IF req.storeId = "life_kawasaki_oshima"
                       THEN SelectSeq(highRes, isLifeLeafletUrl) ELSE expanded
          IN  /\ inputUrls' = final
              /\ groups' = IF req.storeId = "itoyokado_kawasaki"
                           THEN pickShufooTileGroups(final) ELSE <<>>
              /\ gi' = 1
              /\ ni' = 1
              /\ pc' = "assets"
              /\ UNCHANGED resp
  /\ UNCHANGED <<route, req, warnings, tiles, ti, allItems, items, calls, outcomes>>
  /\ UNCHANGED <<urls, ui, web, fetched, stitchedTileUrls, pagePngs>>

\* the for loop of composeShufooTiles over the tiles ts, the web being w:
\* the URLs fetched, the entries kept, and whether a check, a fetch or
\* sharp threw
RECURSIVE ComposeRun(_, _, _, _, _)
ComposeRun(storeId, ts, w, log, entries) ==
  IF ts = <<>> THEN [threw |-> FALSE, log |-> log, entries |-> entries]
  ELSE LET tile == Head(ts)
       IN  IF ~assertAllowedUrl(storeId, tile.url)
           THEN [threw |-> TRUE, log |-> log, entries |-> entries]
           ELSE LET r == w[tile.url]
                    log2 == Append(log, tile.url)
                IN  IF r.k # "image"
                    THEN [threw |-> TRUE, log |-> log2, entries |-> entries]
                    ELSE IF r.w = 0 \/ r.h = 0
                    THEN ComposeRun(storeId, Tail(ts), w, log2, entries)
                    ELSE ComposeRun(storeId, Tail(ts), w, log2,
                                    Append(entries, [row |-> tile.row, col |-> tile.col,
                                                     width |-> r.w, height |-> r.h]))

SetMin(S) == CHOOSE x \in S : \A y \in S : x <= y
SetMax(S) == CHOOSE x \in S : \A y \in S : x >= y

\* a canvas whose offsets are counted from row 0 and column 0
StitchFromOrigin(entries) ==
  LET tileWidth == entries[1].width
      tileHeight == entries[1].height
      rows == {entries[i].row : i \in 1..Len(entries)}
      cols == {entries[i].col : i \in 1..Len(entries)}
      width == (SetMax(cols) - SetMin(cols) + 1) * tileWidth
      height == (SetMax(rows) - SetMin(rows) + 1) * tileHeight
  IN  [width |-> width, height |-> height,
       composites |-> [i \in 1..Len(entries) |->
                         [left |-> entries[i].col * tileWidth,
                          top |-> entries[i].row * tileHeight]],
       ok |-> \A i \in 1..Len(entries) :
                entries[i].width <= width /\ entries[i].height <= height]

\* lines 357-386: the canvas and the offsets; sharp rejects an overlay
\* larger than the canvas
Stitch(entries) ==
  LET tileWidth == entries[1].width
      tileHeight == entries[1].height
      rows == {entries[i].row : i \in 1..Len(entries)}
      cols == {entries[i].col : i \in 1..Len(entries)}
      width == (SetMax(cols) - SetMin(cols) + 1) * tileWidth
      height == (SetMax(rows) - SetMin(rows) + 1) * tileHeight
  IN  [width |-> width, height |-> height,
       composites |-> [i \in 1..Len(entries) |->
                         [left |-> (entries[i].col - SetMin(cols)) * tileWidth,
                          top |-> (entries[i].row - SetMin(rows)) * tileHeight]],
       ok |-> \A i \in 1..Len(entries) :
                entries[i].width <= width /\ entries[i].height <= height]

\* composeShufooTiles on the tiles ts, the web being w: the bitmap
\* ("png"), null, or an exception ("threw")
composeShufooTiles(storeId, ts, w) ==
  LET run == ComposeRun(storeId, ts, w, <<>>, <<>>)
      none == [width |-> 0, height |-> 0, composites |-> <<>>]
  IN  IF run.threw THEN [t |-> "threw", entries |-> run.entries, canvas |-> none]
      ELSE IF Len(run.entries) < 2 THEN [t |-> "null", entries |-> run.entries, canvas |-> none]
      ELSE IF ~Stitch(run.entries).ok
           THEN [t |-> "threw", entries |-> run.entries, canvas |-> none]
           ELSE [t |-> "png", entries |-> run.entries,
                 canvas |-> [width |-> Stitch(run.entries).width,
                             height |-> Stitch(run.entries).height,
                             composites |-> Stitch(run.entries).composites]]

\* one iteration of for (const group of tileGroups), lines 657-669
ComposeGroup ==
  /\ pc = "assets"
  /\ gi <= Len(groups)
  /\ LET g == groups[gi]
         tileUrls == {g.tiles[i].url : i \in 1..Len(g.tiles)}
         unknown == tileUrls \ DOMAIN web
     IN  \E ext \in [unknown -> UNION {ResponsesFor(req.storeId, u) : u \in unknown}] :
           /\ \A u \in unknown : ext[u] \in ResponsesFor(req.storeId, u)
           /\ LET run == ComposeRun(req.storeId, g.tiles, web @@ ext, <<>>, <<>>)
                  seen == {run.log[i] : i \in 1..Len(run.log)}
              IN  /\ web' = [u \in DOMAIN web \cup seen |-> (web @@ ext)[u]]
                  /\ fetched' = fetched \o run.log
                  /\ IF run.threw
                     THEN /\ warnings' = Append(warnings, Warning("compose_failed"))
                          /\ UNCHANGED <<pagePngs, stitchedTileUrls>>
                     ELSE IF Len(run.entries) < 2
                     THEN /\ warnings' = Append(warnings, Warning("compose_short"))
                          /\ UNCHANGED <<pagePngs, stitchedTileUrls>>
                     ELSE IF ~Stitch(run.entries).ok
                     THEN /\ warnings' = Append(warnings, Warning("compose_failed"))
                          /\ UNCHANGED <<pagePngs, stitchedTileUrls>>
                     ELSE /\ pagePngs' = Append(pagePngs,
                                                PageBitmap(Stitch(run.entries).width,
                                                           Stitch(run.entries).height,
                                                           TRUE, g.tiles[1].url))
                          /\ stitchedTileUrls' = stitchedTileUrls \cup tileUrls
                          /\ UNCHANGED warnings
  /\ gi' = gi + 1
  /\ UNCHANGED <<route, req, pc, tiles, ti, allItems, items, resp, calls, outcomes>>
  /\ UNCHANGED <<urls, ui, inputUrls, groups, ni>>

\* convertPdfToPngPages on the body r: the pages, or pdftoppm failed
convertPdfToPngPages(r, u) ==
  CASE r.k = "pdf" ->
         [threw |-> FALSE,
          pages |-> [i \in 1..r.pages |-> PageBitmap(PdfPageSize.w, PdfPageSize.h, TRUE, u)]]
    [] r.k = "pdf_badpage" ->
         [threw |-> FALSE,
          pages |-> [i \in 1..r.pages |-> PageBitmap(PdfPageSize.w, PdfPageSize.h, FALSE, u)]]
    [] OTHER -> [threw |-> TRUE, pages |-> <<>>]

\* one iteration of for (const urlStr of inputUrls), lines 671-690
NormalizeUrl ==
  /\ pc = "assets"
  /\ gi > Len(groups)
  /\ ni <= Len(inputUrls)
  /\ LET u == inputUrls[ni]
     IN  IF u \in stitchedTileUrls
         THEN UNCHANGED <<warnings, web, fetched, pagePngs>>
         ELSE IF ~assertAllowedUrl(req.storeId, u)
         THEN /\ warnings' = Append(warnings, UrlWarning("normalize_failed", u))
              /\ UNCHANGED <<web, fetched, pagePngs>>
         ELSE \E r0 \in FetchChoices(u) :
                LET r == Served(r0, u)
                IN  /\ web' = Remember(web, u, r0)
                    /\ fetched' = Append(fetched, u)
                    /\ IF r.k = "fail"
                       THEN /\ warnings' = Append(warnings, UrlWarning("normalize_failed", u))
                            /\ UNCHANGED pagePngs
                       ELSE IF isPdfByTypeOrUrl(contentType(r), u)
                       THEN LET c == convertPdfToPngPages(r, u)
                            IN  IF c.threw
                                THEN /\ warnings' = Append(warnings,
                                                           UrlWarning("normalize_failed", u))
                                     /\ UNCHANGED pagePngs
                                ELSE /\ warnings' = IF c.pages = <<>>
                                                    THEN Append(warnings,
                                                                UrlWarning("pdf_zero_pages", u))
                                                    ELSE warnings
                                     /\ pagePngs' = pagePngs \o c.pages
                       ELSE IF r.k = "image"
                       THEN /\ pagePngs' = Append(pagePngs, PageBitmap(r.w, r.h, TRUE, u))
                            /\ UNCHANGED warnings
                       ELSE /\ warnings' = Append(warnings, UrlWarning("normalize_failed", u))
                            /\ UNCHANGED pagePngs
  /\ ni' = ni + 1
  /\ UNCHANGED <<route, req, pc, tiles, ti, allItems, items, resp, calls, outcomes>>
  /\ UNCHANGED <<urls, ui, inputUrls, groups, gi, stitchedTileUrls>>

\* lines 692-724: no page, the tiling loop, no tile
TilePagePngs ==
  /\ pc = "assets"
  /\ gi > Len(groups)
  /\ ni > Len(inputUrls)
  /\ IF pagePngs = <<>>
     THEN /\ resp' = SummaryResponse(warnings, "no_pages")
          /\ pc' = "done"
          /\ UNCHANGED <<tiles, ti>>
     ELSE LET r == TilePages(pagePngs, 1, <<>>, MaxTilesOf(req))
          IN  IF r.threw
              THEN resp' = Exception /\ pc' = "done" /\ UNCHANGED <<tiles, ti>>
              ELSE IF r.tiles = <<>>
              THEN /\ resp' = SummaryResponse(warnings, "no_tiles")
                   /\ pc' = "done"
                   /\ UNCHANGED <<tiles, ti>>
              ELSE /\ tiles' = r.tiles
                   /\ ti' = 0
                   /\ pc' = "extract"
                   /\ UNCHANGED resp
  /\ UNCHANGED <<route, req, warnings, allItems, items, calls, outcomes>>
  /\ UNCHANGED pipeVars

\* the extraction loop and the answer, lines 726-770
PipelineOutcomes == {GeminiError, GeminiJson(<<BatchRawA>>)}

\* the Gemini calls of one request that fail: at most MaxFailedCalls
MaxFailedCalls == 1

ExtractTile ==
  /\ \E o \in PipelineOutcomes :
       /\ callGeminiForTile(o).threw =>
            Cardinality({i \in 1..Len(outcomes) : callGeminiForTile(outcomes[i]).threw})
              < MaxFailedCalls
       /\ ExtractTileWith(o)
  /\ UNCHANGED pipeVars

RespondOk == Respond /\ UNCHANGED pipeVars

\* the requests
MaxUrls == 2

SeqsOver(S, n) == UNION {[1..k -> S] : k \in 1..n}

RequestUrls(storeId) ==
  CASE storeId = "aoba_oshima" ->
         {ImgUrl("www.bicrise.com", 1), PdfUrl("www.bicrise.com", 1),
          PageUrl("www.bicrise.com"), ImgUrl(OtherHost, 1), InvalidUrl, NonStringUrl,
          Url("ftp", "www.bicrise.com", "img", 1, 0, "", "", FALSE)}
    [] storeId = "life_kawasaki_oshima" ->
         {PageUrl("store.lifecorp.jp"), LeafletUrl("image.tokubai.co.jp", "w=300", 1),
          PdfUrl("store.lifecorp.jp", 1), ImgUrl(OtherHost, 1)}
    [] storeId = "itoyokado_kawasaki" ->
         {PageUrl("asp.shufoo.net"), TileUrl("ipqcache1.shufoo.net", 3, 0),
          ImgUrl("www.shufoo.net", 1), PageUrl(OtherHost)}

\* requests that exercise the checks of lines 569-592
ValidationRequests ==
  {Request(k, sid, us, u, "all", Undef) :
     k \in BOOLEAN,
     sid \in {"", "unknown_store", "toString", "aoba_oshima"},
     us \in {NoUrls, NotAnArray, UrlArray(<<>>), UrlArray(<<NonStringUrl>>),
             UrlArray(<<ImgUrl("www.bicrise.com", 1)>>)},
     u \in {NoUrlField, UrlField(ImgUrl("www.bicrise.com", 1))}}

\* requests that exercise resolution, compositing and normalization
PipelineRequests ==
  UNION {{Request(TRUE, sid, UrlArray(us), NoUrlField, "all", Undef) :
            us \in SeqsOver(RequestUrls(sid), MaxUrls)} : sid \in ConfiguredStores}

\* requests that exercise the tile budget and the mode
BudgetRequests ==
  {Request(TRUE, "aoba_oshima", UrlArray(us), NoUrlField, m, b) :
     us \in {<<ImgUrl("www.bicrise.com", 1)>>,
             <<PdfUrl("www.bicrise.com", 1), ImgUrl("www.bicrise.com", 1)>>},
     m \in {"all", "ingredients"},
     b \in {Num(0), Num(1), Num(2), Num(3), Num(-1), NumTenths(15), Str(<<"2">>),
            Str(<<"a">>), JsNull}}

Requests == ValidationRequests \cup PipelineRequests \cup BudgetRequests

Init ==
  /\ NormIdle /\ AutoIdle /\ ScanIdle /\ TileIdle /\ KeyIdle /\ GridIdle /\ PdfIdle /\ SideIdle
  /\ route = "extract-url"
  /\ req \in Requests
  /\ pc = "start"
  /\ warnings = <<>> /\ tiles = <<>> /\ ti = 0
  /\ allItems = <<>> /\ items = <<>> /\ resp = Undef
  /\ calls = <<>> /\ outcomes = <<>>
  /\ PipeIdle

Next ==
  \/ Validate /\ UNCHANGED <<normVars, autoVars, scanVars, tileVars, keyVars, gridVars, pdfVars, sideVars>>
  \/ PreResolveUrl /\ UNCHANGED <<normVars, autoVars, scanVars, tileVars, keyVars, gridVars, pdfVars, sideVars>>
  \/ AfterResolve /\ UNCHANGED <<normVars, autoVars, scanVars, tileVars, keyVars, gridVars, pdfVars, sideVars>>
  \/ ComposeGroup /\ UNCHANGED <<normVars, autoVars, scanVars, tileVars, keyVars, gridVars, pdfVars, sideVars>>
  \/ NormalizeUrl /\ UNCHANGED <<normVars, autoVars, scanVars, tileVars, keyVars, gridVars, pdfVars, sideVars>>
  \/ TilePagePngs /\ UNCHANGED <<normVars, autoVars, scanVars, tileVars, keyVars, gridVars, pdfVars, sideVars>>
  \/ ExtractTile /\ UNCHANGED <<normVars, autoVars, scanVars, tileVars, keyVars, gridVars, pdfVars, sideVars>>
  \/ RespondOk /\ UNCHANGED <<normVars, autoVars, scanVars, tileVars, keyVars, gridVars, pdfVars, sideVars>>

Spec == Init /\ [][Next]_vars

----------------------------------------------------------------------------
(* SpecResolve: one POST to the resolve route (src/unnamed/part_001) *)

\* a Shufoo viewer page, /t/asp_iframe/shop/<shop>/<n>
ViewerUrl(n) == Url("https", "asp.shufoo.net", "page", n, 0, "detail", "", FALSE)

\* BAD_PARTS.some((p) => l.includes(p)); of the URLs modelled, those with
\* "thumb" in the path or in the query
looksBad(u) == u.thumb \/ QueryHasThumb(u.q)

\* part_001 scoreShufooImageLike
scoreShufooImageLike(u) ==
  (IF u.host \in {"ipqcache1.shufoo.net", "ipqcache2.shufoo.net"} THEN 90 ELSE 0)
  + (IF u.host \in {"s-cmn.shufoo.net", "cmn.shufoo.net"} THEN 70 ELSE 0)
  + (IF HostEndsWithShufooNet(u.host) THEN 20 ELSE 0)
  + (IF u.thumb \/ QueryHasThumb(u.q) THEN -120 ELSE 0)
  + (IF u.q = "thumb-size=m" THEN -120 ELSE 0)
  + (IF looksLikeImageUrl(u) THEN 10 ELSE 0)

pickItoyokadoViewerPage(pages) ==
  IF \E i \in 1..Len(pages) : pages[i].seg = "detail"
  THEN pages[SetMin({i \in 1..Len(pages) : pages[i].seg = "detail"})]
  ELSE pages[1]

ResolveRequest(storeId, pages) == [t |-> "body", storeId |-> storeId, pages |-> pages]

ResolveStores == ConfiguredStores \cup {"", "unknown_store"}

\* an address of the cloud metadata service
MetadataUrl == Url("http", "169.254.169.254", "page", 0, 0, "", "", FALSE)

ResolvePageLists ==
  {<<>>, <<PageUrl("www.bicrise.com")>>, <<PageUrl("store.lifecorp.jp")>>,
   <<PageUrl("stores.itoyokado.co.jp"), ViewerUrl(7)>>, <<ViewerUrl(7)>>,
   <<PageUrl(OtherHost)>>, <<MetadataUrl>>}

ResolveRequests ==
  {JsNull} \cup {ResolveRequest(sid, ps) : sid \in ResolveStores, ps \in ResolvePageLists}

\* what extractUrlsFromHtml finds in the page served: images and pdfs
ResolveHtmls ==
  {[images |-> <<>>, pdfs |-> <<>>],
   [images |-> <<ImgUrl("www.bicrise.com", 1), ImgUrl(OtherHost, 1),
                 Url("https", "www.bicrise.com", "img", 2, 0, "", "", TRUE)>>,
    pdfs |-> <<PdfUrl("www.bicrise.com", 1)>>],
   [images |-> <<LeafletUrl("image.tokubai.co.jp", "w=300", 1),
                 Url("https", "s-cmn.shufoo.net", "img", 2, 0, "", "thumb-size=m", FALSE)>>,
    pdfs |-> <<PdfUrl(OtherHost, 1),
               Url("https", "www.bicrise.com", "pdf", 2, 0, "", "", TRUE)>>]}

ResolveResponse(status, cands, ws) ==
  [t |-> "response", status |-> status, candidates |-> cands, warnings |-> ws]

\* lines 306-318
ResolveValidate ==
  /\ rpc = "start"
  /\ IF rReq.t # "body"
     THEN rResp' = ErrorResponse(400) /\ rpc' = "done" /\ UNCHANGED rTarget
     ELSE IF rReq.storeId = "" \/ Len(rReq.pages) = 0
     THEN rResp' = ErrorResponse(400) /\ rpc' = "done" /\ UNCHANGED rTarget
     ELSE /\ rTarget' = IF rReq.storeId = "itoyokado_kawasaki"
                        THEN pickItoyokadoViewerPage(rReq.pages) ELSE rReq.pages[1]
          /\ rpc' = "fetch"
          /\ UNCHANGED rResp
  /\ UNCHANGED <<rReq, rImgs, rPdfs, rScored, rFetched>>

Request0(u, method) == [url |-> u, method |-> method]

\* lines 324-351: the page fetch and the candidates of its HTML
ResolveFetchPage ==
  /\ rpc = "fetch"
  /\ rFetched' = Append(rFetched, Request0(rTarget, "GET"))
  /\ \/ /\ rResp' = ResolveResponse(200, <<>>, <<Warning("fetch_html_failed")>>)
        /\ rpc' = "done"
        /\ UNCHANGED <<rImgs, rPdfs>>
     \/ \E h \in ResolveHtmls :
          /\ rImgs' = SelectSeq(h.images, LAMBDA u : ~looksBad(u))
          /\ rPdfs' = SelectSeq(h.pdfs, LAMBDA u : ~looksBad(u))
          /\ rpc' = "probe"
          /\ UNCHANGED rResp
  /\ UNCHANGED <<rReq, rTarget, rScored>>

ResolveMaxProbes == 50
ResolveMinSize == 180000
ContentLengths == {0, 100000, 200000}

\* one iteration of lines 356-360: contentLength asks by HEAD and, without
\* an answer, by a ranged GET
ResolveProbe ==
  /\ rpc = "probe"
  /\ Len(rScored) < Min(Len(rImgs), ResolveMaxProbes)
  /\ LET url == rImgs[Len(rScored) + 1]
     IN  \E answered \in BOOLEAN, size \in ContentLengths :
           /\ rFetched' = IF answered
                          THEN Append(rFetched, Request0(url, "HEAD"))
                          ELSE rFetched \o <<Request0(url, "HEAD"), Request0(url, "GET")>>
           /\ rScored' = Append(rScored, [url |-> url, size |-> size])
  /\ UNCHANGED <<rReq, rpc, rTarget, rImgs, rPdfs, rResp>>

PdfCandidate(u) == [kind |-> "pdf", url |-> u, source |-> "resolve"]
ImageCandidate(u, source) == [kind |-> "image", url |-> u, source |-> source]

\* what resolveShufooWithPlaywright returns, or "throws"
PlaywrightOutcomes ==
  {[threw |-> TRUE, urls |-> <<>>], [threw |-> FALSE, urls |-> <<>>],
   [threw |-> FALSE, urls |-> <<TileUrl("ipqcache1.shufoo.net", 3, 0),
                               TileUrl("ipqcache1.shufoo.net", 3, 1)>>]}

\* lines 362-416
ResolveFinish ==
  /\ rpc = "probe"
  /\ Len(rScored) >= Min(Len(rImgs), ResolveMaxProbes)
  /\ LET sorted == Values(SortStable([i \in 1..Len(rScored) |->
                                        [k |-> -rScored[i].size, v |-> rScored[i]]]))
         big == SelectSeq(sorted, LAMBDA x : x.size = 0 \/ x.size > ResolveMinSize)
         picked0 == [i \in 1..Len(Take(big, 6)) |-> big[i].url]
         respond(picked, ws) ==
           LET final == IF rReq.storeId = "life_kawasaki_oshima"
                        THEN [i \in 1..Len(picked) |-> toTokubaiHighRes(picked[i])]
                        ELSE picked
               pdfs == Take(rPdfs, 3)
           IN  rResp' = ResolveResponse(200,
                  [i \in 1..Len(pdfs) |-> PdfCandidate(pdfs[i])]
                  \o [i \in 1..Len(final) |->
                        ImageCandidate(final[i],
                                       IF rReq.storeId = "itoyokado_kawasaki"
                                       THEN "resolve_pw" ELSE "resolve")],
                  ws)
     IN  IF rReq.storeId = "itoyokado_kawasaki"
         THEN \E pw \in PlaywrightOutcomes :
                /\ rFetched' = Append(rFetched, Request0(rTarget, "goto"))
                /\ IF pw.threw THEN respond(picked0, <<Warning("playwright_failed")>>)
                   ELSE IF pw.urls # <<>> THEN respond(pw.urls, <<>>)
                   ELSE IF picked0 = <<>> THEN respond(picked0, <<Warning("playwright_empty")>>)
                   ELSE respond(picked0, <<>>)
         ELSE respond(picked0, <<>>) /\ UNCHANGED rFetched
  /\ rpc' = "done"
  /\ UNCHANGED <<rReq, rTarget, rImgs, rPdfs, rScored>>

ResolveInit ==
  /\ NormIdle /\ AutoIdle /\ ScanIdle /\ TileIdle /\ KeyIdle /\ GridIdle /\ PdfIdle /\ PostIdle /\ DiscoverIdle
  /\ rReq \in ResolveRequests
  /\ rpc = "start" /\ rTarget = Undef
  /\ rImgs = <<>> /\ rPdfs = <<>> /\ rScored = <<>>
  /\ rFetched = <<>> /\ rResp = Undef

ResolveNext ==
  \/ ResolveValidate /\ UNCHANGED <<normVars, autoVars, scanVars, tileVars, keyVars, gridVars, pdfVars, postVars, discoverVars>>
  \/ ResolveFetchPage /\ UNCHANGED <<normVars, autoVars, scanVars, tileVars, keyVars, gridVars, pdfVars, postVars, discoverVars>>
  \/ ResolveProbe /\ UNCHANGED <<normVars, autoVars, scanVars, tileVars, keyVars, gridVars, pdfVars, postVars, discoverVars>>
  \/ ResolveFinish /\ UNCHANGED <<normVars, autoVars, scanVars, tileVars, keyVars, gridVars, pdfVars, postVars, discoverVars>>

SpecResolve == ResolveInit /\ [][ResolveNext]_vars

\* A fetch is awaited with no timeout and no abort signal (the page fetch
\* and both fetches of contentLength): when the upstream server never
\* answers, the promise never settles and the handler stays suspended at
\* the await.
ResolveFetchNeverSettles ==
  /\ \/ /\ rpc = "fetch"
        /\ rFetched' = Append(rFetched, Request0(rTarget, "GET"))
     \/ /\ rpc = "probe"
        /\ Len(rScored) < Min(Len(rImgs), ResolveMaxProbes)
        /\ rFetched' = Append(rFetched, Request0(rImgs[Len(rScored) + 1], "HEAD"))
  /\ rpc' = "awaiting"
  /\ UNCHANGED <<rReq, rTarget, rImgs, rPdfs, rScored, rResp>>

ResolveLiveNext ==
  \/ ResolveNext
  \/ ResolveFetchNeverSettles /\ UNCHANGED <<normVars, autoVars, scanVars, tileVars, keyVars, gridVars, pdfVars, postVars, discoverVars>>

\* the runtime runs a handler whenever it has a step to take
SpecResolveLive == ResolveInit /\ [][ResolveLiveNext]_vars /\ WF_vars(ResolveLiveNext)

----------------------------------------------------------------------------
(* SpecDiscover: the discover route (api/flyer/discover/route.ts) and      *)
(* discoverFlyerCandidates (lib/flyerDiscover.ts)                          *)
(*                                                                          *)
(* A page is the record of what the regular expressions find in its HTML:  *)
(* the Shufoo cards (href, start date or -1), the Life leaflet cards (img,  *)
(* start date or -1) and the URLs of its attributes and text.  No URL      *)
(* modelled contains an escaped ampersand, which decodeLooseAmp would      *)
(* rewrite.                                                                *)

ListUrl == Url("https", "asp.shufoo.net", "page", 0, 0, "list", "", FALSE)
WidgetUrl == Url("https", "widgets.tokubai.co.jp", "page", 0, 0, "leaflet_widget", "", FALSE)

STORE_URLS(storeId) ==
  CASE storeId = "life_kawasaki_oshima" -> PageUrl("store.lifecorp.jp")
    [] storeId = "aoba_oshima" -> PageUrl("www.bicrise.com")
    [] storeId = "itoyokado_kawasaki" -> PageUrl("stores.itoyokado.co.jp")

Candidate(kind, u, title, source) ==
  [kind |-> kind, url |-> u, title |-> title, source |-> source]

DiscoverResponse(cands, ws) ==
  [t |-> "response", status |-> 200, candidates |-> cands, warnings |-> ws]

StorePage(shufooCards, lifeCards, us) ==
  [shufooCards |-> shufooCards, lifeCards |-> lifeCards, urls |-> us]

HostIncludesShufoo(h) == HostEndsWithShufooNet(h)

EndsWithImageExt(u) == looksLikeImageUrl(u) /\ u.q = ""

\* classifyCandidate: the kind, or "none" for null
classifyCandidate(u) ==
  IF u.kind = "pdf" /\ u.q = "" THEN "pdf"
  ELSE IF EndsWithImageExt(u) THEN "image"
  ELSE IF HostIncludesShufoo(u.host) \/ u.seg \in {"detail", "list"} THEN "page"
  ELSE "none"

\* discover/route.ts scoreShufooImage
scoreShufooImageDiscover(u) ==
  (IF u.host \in {"s-cmn.shufoo.net", "cmn.shufoo.net"} THEN 80 ELSE 0)
  + (IF HostIncludesShufoo(u.host) THEN 30 ELSE 0)
  + (IF u.thumb \/ QueryHasThumb(u.q) THEN -80 ELSE 0)
  + (IF u.q = "thumb-size=m" THEN -80 ELSE 0)
  + (IF EndsWithImageExt(u) THEN 20 ELSE 0)

\* pickLatestShufooCardUrl: the href of the first card with the greatest
\* start date, "none" without a dated card
RECURSIVE LatestCard(_, _, _)
LatestCard(cards, bestTs, best) ==
  IF cards = <<>> THEN best
  ELSE IF Head(cards).ts >= 0 /\ (best.t = "none" \/ Head(cards).ts > bestTs)
       THEN LatestCard(Tail(cards), Head(cards).ts, [t |-> "url", u |-> Head(cards).href])
       ELSE LatestCard(Tail(cards), bestTs, best)

NoneUrl == [t |-> "none", u |-> InvalidUrl]
SomeUrl(u) == [t |-> "url", u |-> u]

pickLatestShufooCardUrl(page) == LatestCard(page.shufooCards, -1, NoneUrl)

First(xs, P(_)) ==
  IF \E i \in 1..Len(xs) : P(xs[i])
  THEN SomeUrl(xs[SetMin({i \in 1..Len(xs) : P(xs[i])})]) ELSE NoneUrl

IsShufooDetail(u) == u.host = "asp.shufoo.net" /\ u.seg = "detail"
IsShufooList(u) == u.host = "asp.shufoo.net" /\ u.seg = "list"

\* what the list page may answer: a failure, no flyer id, the flyer id n
ListAnswers == {[k |-> "fail", n |-> 0], [k |-> "nomatch", n |-> 0], [k |-> "match", n |-> 12]}

\* findShufooDetailPageUrl: the URL found and the URLs fetched on the way
findShufooDetailPageUrl(page, listAnswer) ==
  LET urls0 == uniq(page.urls)
      detail == First(urls0, IsShufooDetail)
      list == First(urls0, IsShufooList)
  IN  IF pickLatestShufooCardUrl(page).t = "url"
      THEN [found |-> pickLatestShufooCardUrl(page), log |-> <<>>]
      ELSE IF detail.t = "url" THEN [found |-> detail, log |-> <<>>]
      ELSE IF list.t = "none" THEN [found |-> NoneUrl, log |-> <<>>]
      ELSE [found |-> IF listAnswer.k = "match"
                      THEN SomeUrl(Url("https", "asp.shufoo.net", "page", listAnswer.n, 0,
                                       "detail", "lp-chirashi=true", FALSE))
                      ELSE NoneUrl,
            log |-> <<list.u>>]

\* what the detail page may answer: a failure (Undef) or a page
DetailAnswers ==
  {Undef,
   StorePage(<<>>, <<>>, <<>>),
   StorePage(<<>>, <<>>, <<Url("https", "s-cmn.shufoo.net", "img", 2, 0, "", "", TRUE),
                           ImgUrl("www.shufoo.net", 1), ImgUrl(OtherHost, 1)>>),
   StorePage(<<>>, <<>>, <<Url("https", "s-cmn.shufoo.net", "img", 2, 0, "", "", TRUE)>>)}

\* tryResolveMainImageFromShufooPage on the answer a
tryResolveMainImageFromShufooPage(a) ==
  IF a = Undef THEN [imageUrl |-> NoneUrl, warnings |-> <<Warning("shufoo_page_failed")>>]
  ELSE LET imgUrls == SelectSeq(uniq(a.urls),
                                LAMBDA u : EndsWithImageExt(u) /\ HostIncludesShufoo(u.host))
           sorted == Values(SortStable([i \in 1..Len(imgUrls) |->
                              [k |-> -scoreShufooImageDiscover(imgUrls[i]), v |-> imgUrls[i]]]))
       IN  IF imgUrls = <<>>
           THEN [imageUrl |-> NoneUrl, warnings |-> <<Warning("shufoo_no_image")>>]
           ELSE [imageUrl |-> SomeUrl(sorted[1]),
                 warnings |-> IF sorted[1].thumb \/ QueryHasThumb(sorted[1].q)
                              THEN <<Warning("thumbs_only")>> ELSE <<>>]

\* uniqByUrl of the route: Map.set per candidate, Array.from(map.values())
RECURSIVE uniqByUrlInto(_, _)
uniqByUrlInto(m, cs) ==
  IF cs = <<>> THEN m ELSE uniqByUrlInto(MapSet(m, Head(cs).url, Head(cs)), Tail(cs))

uniqByUrl(cs) == MapValues(uniqByUrlInto(<<>>, cs))

KindRank(c) == CASE c.kind = "image" -> 0 [] c.kind = "page" -> 1 [] OTHER -> 2

DiscoverCap == 30

\* lines 419-481, the page being storeHtml
ItoyokadoCandidates(page, listAnswer, detailAnswer) ==
  LET f == findShufooDetailPageUrl(page, listAnswer)
      resolved == tryResolveMainImageFromShufooPage(detailAnswer)
      head == IF f.found.t = "none" THEN <<>>
              ELSE (IF resolved.imageUrl.t = "url"
                    THEN <<Candidate("image", resolved.imageUrl.u, "main_image", "scrape")>>
                    ELSE <<>>)
                   \o <<Candidate("page", f.found.u, "main_view", "scrape")>>
      urls0 == uniq(page.urls)
      pageFallback == SelectSeq([i \in 1..Len(urls0) |->
                                   Candidate(classifyCandidate(urls0[i]), urls0[i],
                                             "flyer_page", "scrape")],
                                LAMBDA c : c.kind = "page")
      filtered == IF f.found.t = "url"
                  THEN SelectSeq(pageFallback, LAMBDA c : c.url.seg # "list")
                  ELSE pageFallback
      sortedFallback == Values(SortStable([i \in 1..Len(filtered) |->
                                  [k |-> IF filtered[i].url.seg = "list" THEN 1 ELSE 0,
                                   v |-> filtered[i]]]))
      all == uniqByUrl(head \o sortedFallback)
      byKind == Values(SortStable([i \in 1..Len(all) |-> [k |-> KindRank(all[i]), v |-> all[i]]]))
  IN  [log |-> f.log \o (IF f.found.t = "url" THEN <<f.found.u>> ELSE <<>>),
       resp |-> DiscoverResponse(Take(byKind, DiscoverCap),
                  IF f.found.t = "url" THEN resolved.warnings
                  ELSE <<Warning("no_detail_page")>>)]

\* pickLatestLifeLeaflets(...).urls
pickLatestLifeLeaflets(page) ==
  LET withDates == SelectSeq(page.lifeCards, LAMBDA c : c.start >= 0)
      maxStart == SetMax({withDates[i].start : i \in 1..Len(withDates)})
      latest == SelectSeq(withDates, LAMBDA c : c.start = maxStart)
  IN  IF withDates = <<>> THEN <<>>
      ELSE [i \in 1..Len(latest) |-> toTokubaiHighRes(latest[i].img)]

LifeLatestCap == 10

\* lines 484-528, the page being storeHtml
LifeCandidates(page) ==
  LET latest == pickLatestLifeLeaflets(page)
      leaflets == SelectSeq(latest, isLifeLeafletUrl)
      urls0 == uniq(page.urls)
      widgetUrls == SelectSeq(urls0, LAMBDA u : u.seg = "leaflet_widget")
      rawLeaflets == SelectSeq(urls0, isLifeLeafletUrl)
      tokubaiImages == [i \in 1..Len(rawLeaflets) |-> toTokubaiHighRes(rawLeaflets[i])]
  IN  IF latest # <<>>
      THEN DiscoverResponse(
             Take(uniqByUrl([i \in 1..Len(leaflets) |->
                               Candidate("image", leaflets[i], "latest_flyer", "scrape")]),
                  LifeLatestCap), <<>>)
      ELSE IF widgetUrls # <<>> \/ tokubaiImages # <<>>
      THEN DiscoverResponse(
             Take(uniqByUrl([i \in 1..Len(tokubaiImages) |->
                               Candidate("image", tokubaiImages[i], "flyer_image", "scrape")]
                            \o [i \in 1..Len(widgetUrls) |->
                                  Candidate("page", widgetUrls[i], "flyer_widget", "scrape")]),
                  DiscoverCap), <<>>)
      ELSE DiscoverResponse(<<>>, <<Warning("no_latest_leaflet")>>)

\* the two candidates of the store with a fixed asset list
AobaCandidates ==
  <<Candidate("image", ImgUrl("www.bicrise.com", 1), "aoba_flyer_1", "fixed"),
    Candidate("image", ImgUrl("www.bicrise.com", 2), "aoba_flyer_2", "fixed")>>

ShufooCardLists ==
  {<<>>,
   <<[href |-> ViewerUrl(12), ts |-> -1]>>,
   <<[href |-> ViewerUrl(10), ts |-> 5], [href |-> ViewerUrl(11), ts |-> 7],
     [href |-> ViewerUrl(12), ts |-> -1], [href |-> ViewerUrl(13), ts |-> 7]>>}

ItoyokadoUrlLists ==
  {<<>>,
   <<ViewerUrl(10), ListUrl, ViewerUrl(11)>>,
   <<ListUrl, Url("https", "s-cmn.shufoo.net", "img", 2, 0, "", "thumb-size=m", FALSE)>>,
   <<PageUrl("www.shufoo.net"), ListUrl, ViewerUrl(10), ListUrl>>,
   <<PageUrl("www.shufoo.net"), ImgUrl("www.shufoo.net", 1), PdfUrl("www.shufoo.net", 1)>>}

ItoyokadoPages ==
  {StorePage(cs, <<>>, us) : cs \in ShufooCardLists, us \in ItoyokadoUrlLists}

LifeCardLists ==
  {<<>>,
   <<[img |-> LeafletUrl("image.tokubai.co.jp", "w=300", 1), start |-> 3],
     [img |-> LeafletUrl("image.tokubai.co.jp", "w=300", 2), start |-> 5],
     [img |-> LeafletUrl("image.tokubai.co.jp", "w=300", 3), start |-> 5]>>,
   <<[img |-> ImgUrl("store.lifecorp.jp", 1), start |-> 4]>>,
   <<[img |-> LeafletUrl("image.tokubai.co.jp", "w=300", 1), start |-> -1]>>}

LifeUrlLists ==
  {<<>>,
   <<LeafletUrl("image.tokubai.co.jp", "w=300", 1), WidgetUrl,
     LeafletUrl("image.tokubai.co.jp", "w=200", 1)>>,
   <<PdfUrl("store.lifecorp.jp", 1), ImgUrl("store.lifecorp.jp", 1),
     PdfUrl("store.lifecorp.jp", 1)>>}

LifePages == {StorePage(<<>>, cs, us) : cs \in LifeCardLists, us \in LifeUrlLists}

StorePages(storeId) ==
  IF storeId = "itoyokado_kawasaki" THEN ItoyokadoPages ELSE LifePages

\* storeId in STORE_URLS
StoreInStoreUrls(storeId) == storeId \in ConfiguredStores \cup ObjectPrototypeKeys

\* a route that looks at the store's page before it answers for any store
DiscoverPostFetchFirst ==
  /\ dEntry = "route"
  /\ dpc = "start"
  /\ IF dStoreId = "" \/ ~StoreInStoreUrls(dStoreId)
     THEN dResult' = ErrorResponse(400) /\ dpc' = "done"
     ELSE dpc' = "fetch" /\ UNCHANGED dResult
  /\ UNCHANGED <<dEntry, dStoreId, dHtml, dFetched>>

\* POST, lines 394-413: the storeId check and the fixed list
DiscoverPost ==
  /\ dEntry = "route"
  /\ dpc = "start"
  /\ IF dStoreId = "" \/ ~StoreInStoreUrls(dStoreId)
     THEN dResult' = ErrorResponse(400) /\ dpc' = "done"
     ELSE IF dStoreId = "aoba_oshima"
     THEN dResult' = DiscoverResponse(AobaCandidates, <<>>) /\ dpc' = "done"
     ELSE dpc' = "fetch" /\ UNCHANGED dResult
  /\ UNCHANGED <<dEntry, dStoreId, dHtml, dFetched>>

\* lines 415-416 and the catch of line 560: for an inherited key
\* STORE_URLS[storeId] is no URL and fetch rejects it unsent
DiscoverFetchStore ==
  /\ dEntry = "route"
  /\ dpc = "fetch"
  /\ IF dStoreId \notin ConfiguredStores
     THEN dResult' = ErrorResponse(500) /\ dpc' = "done" /\ UNCHANGED <<dHtml, dFetched>>
     ELSE /\ dFetched' = Append(dFetched, STORE_URLS(dStoreId))
          /\ \E a \in {Undef} \cup StorePages(dStoreId) :
               IF a = Undef
               THEN dResult' = ErrorResponse(500) /\ dpc' = "done" /\ UNCHANGED dHtml
               ELSE dHtml' = a /\ dpc' = "scrape" /\ UNCHANGED dResult
  /\ UNCHANGED <<dEntry, dStoreId>>

\* lines 419-558
DiscoverScrape ==
  /\ dEntry = "route"
  /\ dpc = "scrape"
  /\ IF dStoreId = "itoyokado_kawasaki"
     THEN \E la \in ListAnswers, da \in DetailAnswers :
            LET r == ItoyokadoCandidates(dHtml, la, da)
            IN  dFetched' = dFetched \o r.log /\ dResult' = r.resp
     ELSE dResult' = LifeCandidates(dHtml) /\ UNCHANGED dFetched
  /\ dpc' = "done"
  /\ UNCHANGED <<dEntry, dStoreId, dHtml>>

\* uniqByUrl of lib/flyerDiscover.ts: the first candidate of each URL
RECURSIVE uniqByUrlFirst(_)
uniqByUrlFirst(cs) ==
  IF cs = <<>> THEN <<>>
  ELSE LET init == uniqByUrlFirst(SubSeq(cs, 1, Len(cs) - 1))
           c == cs[Len(cs)]
       IN  IF \E i \in 1..Len(init) : init[i].url = c.url THEN init ELSE Append(init, c)

\* flyerDiscover.ts lines 82-103, the page being the store's home page
LibItoyokadoResult(page) ==
  LET shufooLinks == SelectSeq(page.urls, LAMBDA u : IsShufooDetail(u) \/ IsShufooList(u))
      detail == First(shufooLinks, IsShufooDetail)
      list == First(shufooLinks, IsShufooList)
      picked == IF detail.t = "url" THEN detail ELSE list
  IN  IF picked.t = "url"
      THEN DiscoverResponse(
             uniqByUrlFirst(<<Candidate("page", picked.u, "shufoo_page", "scrape")>>),
             <<Warning("dynamic_page")>>
             \o (IF detail.t = "none" THEN <<Warning("list_only")>> ELSE <<>>))
      ELSE DiscoverResponse(<<>>, <<Warning("no_flyer_page")>>)

\* flyerDiscover.ts lines 107-126
LibLifeResult(page) ==
  LET hits == SelectSeq(page.urls, LAMBDA u : u.kind = "pdf" \/ looksLikeImageUrl(u))
      cands == [i \in 1..Len(hits) |->
                  IF hits[i].kind = "pdf"
                  THEN Candidate("pdf", hits[i], "pdf_candidate", "scrape")
                  ELSE Candidate("image", hits[i], "image_candidate", "scrape")]
  IN  DiscoverResponse(uniqByUrlFirst(cands),
                       IF cands = <<>> THEN <<Warning("dynamic_life")>> ELSE <<>>)

\* discoverFlyerCandidates up to its first fetch, lines 67-83, 107-109, 128
LibDiscover ==
  /\ dEntry = "lib"
  /\ dpc = "start"
  /\ IF dStoreId = "aoba_oshima"
     THEN dResult' = DiscoverResponse(uniqByUrlFirst(AobaCandidates), <<>>) /\ dpc' = "done"
     ELSE IF dStoreId \in {"itoyokado_kawasaki", "life_kawasaki_oshima"}
     THEN dpc' = "fetch" /\ UNCHANGED dResult
     ELSE dResult' = DiscoverResponse(<<>>, <<Warning("unsupported_store")>>) /\ dpc' = "done"
  /\ UNCHANGED <<dEntry, dStoreId, dHtml, dFetched>>

\* the fetch of the home page and the rest of discoverFlyerCandidates; a
\* failed fetch throws out of the function
LibScrape ==
  /\ dEntry = "lib"
  /\ dpc = "fetch"
  /\ dFetched' = Append(dFetched, STORE_URLS(dStoreId))
  /\ \E a \in {Undef} \cup StorePages(dStoreId) :
       IF a = Undef THEN dResult' = Exception /\ UNCHANGED dHtml
       ELSE /\ dHtml' = a
            /\ dResult' = IF dStoreId = "itoyokado_kawasaki"
                          THEN LibItoyokadoResult(a) ELSE LibLifeResult(a)
  /\ dpc' = "done"
  /\ UNCHANGED <<dEntry, dStoreId>>

DiscoverStoreIds == ConfiguredStores \cup {"", "unknown_store", "toString"}

DiscoverInit ==
  /\ NormIdle /\ AutoIdle /\ ScanIdle /\ TileIdle /\ KeyIdle /\ GridIdle /\ PdfIdle /\ PostIdle /\ ResolveIdle
  /\ dEntry \in {"route", "lib"}
  /\ dStoreId \in DiscoverStoreIds
  /\ dpc = "start"
  /\ dHtml = Undef /\ dFetched = <<>> /\ dResult = Undef

DiscoverNext ==
  \/ DiscoverPost /\ UNCHANGED <<normVars, autoVars, scanVars, tileVars, keyVars, gridVars, pdfVars, postVars, resolveVars>>
  \/ DiscoverFetchStore /\ UNCHANGED <<normVars, autoVars, scanVars, tileVars, keyVars, gridVars, pdfVars, postVars, resolveVars>>
  \/ DiscoverScrape /\ UNCHANGED <<normVars, autoVars, scanVars, tileVars, keyVars, gridVars, pdfVars, postVars, resolveVars>>
  \/ LibDiscover /\ UNCHANGED <<normVars, autoVars, scanVars, tileVars, keyVars, gridVars, pdfVars, postVars, resolveVars>>
  \/ LibScrape /\ UNCHANGED <<normVars, autoVars, scanVars, tileVars, keyVars, gridVars, pdfVars, postVars, resolveVars>>

SpecDiscover == DiscoverInit /\ [][DiscoverNext]_vars

----------------------------------------------------------------------------
(* SpecAuto: the auto-fetch runs of one store in the page (page.tsx)        *)
(*                                                                          *)
(* A run is one invocation of startAutoFetchForStore (mode "all") or of     *)
(* startAutoFetchIngredientsForStore (mode "ingredients"): its position,    *)
(* whether its AbortController is aborted, and the response whose body it   *)
(* reads.  A run is suspended at the fetch of a route ("discover_fetch",    *)
(* "resolve_fetch", "extract_fetch") or at the read of the body of its     *)
(* response ("discover_json", "resolve_json", "extract_json").  A body is  *)
(*   "bad"    a status that is not ok, or a body that is no JSON            *)
(*   "urls"   candidates with an image or a PDF                             *)
(*   "pages"  candidates that are pages only                                *)
(*   "empty"  no candidate                                                  *)
(*   "ok"     the answer of extract-url                                     *)

MaxRuns == 2

AutoRun(mode, p, aborted, body) ==
  [mode |-> mode, pc |-> p, aborted |-> aborted, body |-> body]

AutoState(state, message) == [state |-> state, message |-> message]

AutoBodies(p) ==
  CASE p = "discover_fetch" -> {"bad", "urls", "pages", "empty"}
    [] p = "resolve_fetch" -> {"bad", "urls", "empty"}
    [] p = "extract_fetch" -> {"bad", "ok"}

AutoRoute(p) ==
  CASE p \in {"discover_fetch", "discover_json"} -> "discover"
    [] p \in {"resolve_fetch", "resolve_json"} -> "resolve"
    [] p \in {"extract_fetch", "extract_json"} -> "extract-url"

\* controller.abort()
Abort(runs, r) ==
  IF r = 0 THEN runs ELSE [runs EXCEPT ![r].aborted = TRUE]

\* the head of startAutoFetchForStore and startAutoFetchIngredientsForStore,
\* up to the first await
startAutoFetch(mode) ==
  /\ Len(autoRuns) < MaxRuns
  /\ autoRuns' = Append(Abort(autoRuns, abortRef),
                        AutoRun(mode, "discover_fetch", FALSE, "none"))
  /\ abortRef' = Len(autoRuns) + 1
  /\ autoStateByStore' = AutoState("loading", "")
  /\ autoModeByStore' = mode
  /\ UNCHANGED <<autoStoreId, autoFlyerByStore>>

startAutoFetchForStore == startAutoFetch("all")

startAutoFetchIngredientsForStore == startAutoFetch("ingredients")

handleReset ==
  /\ autoRuns' = Abort(autoRuns, abortRef)
  /\ abortRef' = 0
  /\ autoFlyerByStore' = 0
  /\ autoStateByStore' = AutoState("idle", "")
  /\ autoModeByStore' = "null"
  /\ UNCHANGED autoStoreId

\* the catch clause of a run: an AbortError returns, any other error is
\* written as the error state of the store
AutoCatch(r, name, message) ==
  /\ autoRuns' = [autoRuns EXCEPT ![r].pc = "ended"]
  /\ autoStateByStore' = IF name = "AbortError"
                         THEN autoStateByStore
                         ELSE AutoState("error", message)
  /\ UNCHANGED <<autoStoreId, abortRef, autoFlyerByStore, autoModeByStore>>

\* await fetch(route, {signal: ac.signal}) settles: with an AbortError when
\* the signal is aborted, else with a response or with a network error
AutoFetchSettles(r) ==
  /\ autoRuns[r].pc \in {"discover_fetch", "resolve_fetch", "extract_fetch"}
  /\ IF autoRuns[r].aborted
     THEN AutoCatch(r, "AbortError", "")
     ELSE \/ AutoCatch(r, "TypeError", "fetch failed")
          \/ \E b \in AutoBodies(autoRuns[r].pc) :
               /\ autoRuns' = [autoRuns EXCEPT
                    ![r].pc = CASE @ = "discover_fetch" -> "discover_json"
                                [] @ = "resolve_fetch" -> "resolve_json"
                                [] @ = "extract_fetch" -> "extract_json",
                    ![r].body = b]
               /\ UNCHANGED <<autoStoreId, abortRef, autoStateByStore,
                              autoFlyerByStore, autoModeByStore>>

AutoGoto(r, p) ==
  /\ autoRuns' = [autoRuns EXCEPT ![r].pc = p, ![r].body = "none"]
  /\ UNCHANGED <<autoStoreId, abortRef, autoStateByStore, autoFlyerByStore, autoModeByStore>>

AutoGiveUp(r, message) ==
  /\ autoRuns' = [autoRuns EXCEPT ![r].pc = "ended"]
  /\ autoStateByStore' = AutoState("error", message)
  /\ UNCHANGED <<autoStoreId, abortRef, autoFlyerByStore, autoModeByStore>>

\* await res.json().catch(() => null) settles, and the run goes on to its
\* next await or to its end.  The read of a body rejects when the signal is
\* aborted; the rejection is caught and gives null like a body that is no
\* JSON.
AutoBodyRead(r) ==
  /\ autoRuns[r].pc \in {"discover_json", "resolve_json", "extract_json"}
  /\ LET run == autoRuns[r]
         json == IF run.aborted THEN "bad" ELSE run.body
     IN  CASE json = "bad" ->
                AutoCatch(r, "Error", AutoRoute(run.pc) \o " failed")
           [] run.pc = "discover_json" /\ json # "bad" ->
                IF autoStoreId # "itoyokado_kawasaki" /\ json = "pages"
                THEN AutoGoto(r, "resolve_fetch")
                ELSE IF json = "urls" \/ (autoStoreId = "itoyokado_kawasaki" /\ json = "pages")
                THEN AutoGoto(r, "extract_fetch")
                ELSE AutoGiveUp(r, "no candidate url")
           [] run.pc = "resolve_json" /\ json # "bad" ->
                IF json = "empty"
                THEN AutoGiveUp(r, "not expanded")
                ELSE AutoGoto(r, "extract_fetch")
           [] run.pc = "extract_json" /\ json # "bad" ->
                /\ autoRuns' = [autoRuns EXCEPT ![r].pc = "ended"]
                /\ autoFlyerByStore' = r
                /\ autoStateByStore' = AutoState("done", "")
                /\ UNCHANGED <<autoStoreId, abortRef, autoModeByStore>>

AutoInit ==
  /\ NormIdle /\ PostIdle /\ SideIdle /\ ScanIdle /\ TileIdle /\ KeyIdle /\ GridIdle /\ PdfIdle
  /\ autoStoreId \in {"aoba_oshima", "itoyokado_kawasaki"}
  /\ autoRuns = <<>> /\ abortRef = 0
  /\ autoStateByStore = AutoState("idle", "")
  /\ autoFlyerByStore = 0
  /\ autoModeByStore = "null"

AutoNext ==
  \/ startAutoFetchForStore /\ UNCHANGED <<normVars, postVars, sideVars, scanVars, tileVars, keyVars, gridVars, pdfVars>>
  \/ startAutoFetchIngredientsForStore /\ UNCHANGED <<normVars, postVars, sideVars, scanVars, tileVars, keyVars, gridVars, pdfVars>>
  \/ handleReset /\ UNCHANGED <<normVars, postVars, sideVars, scanVars, tileVars, keyVars, gridVars, pdfVars>>
  \/ \E r \in DOMAIN autoRuns : AutoFetchSettles(r) /\ UNCHANGED <<normVars, postVars, sideVars, scanVars, tileVars, keyVars, gridVars, pdfVars>>
  \/ \E r \in DOMAIN autoRuns : AutoBodyRead(r) /\ UNCHANGED <<normVars, postVars, sideVars, scanVars, tileVars, keyVars, gridVars, pdfVars>>

SpecAuto == AutoInit /\ [][AutoNext]_vars

----------------------------------------------------------------------------
(* SpecTile: tileImagePng on one bitmap *)

\* the sides of the bitmaps reach MaxSideSteps steps of the window, and
\* stand at, just after and an overlap after a multiple of the step
MaxSideSteps == 2

TileSides ==
  {k * (TileSize - Overlap) + d : k \in 0..MaxSideSteps, d \in {0, 1, Overlap, Overlap + 1}}
  \ {0}

TileBudgets == {Num(DefaultMaxTiles), Num(1), Num(4), NaN}

TileInit ==
  /\ NormIdle /\ PostIdle /\ SideIdle /\ AutoIdle /\ ScanIdle /\ KeyIdle /\ GridIdle /\ PdfIdle
  /\ \E w \in TileSides, h \in TileSides : tPng = PageBitmap(w, h, TRUE, "image")
  /\ tPage \in {0, 1}
  /\ tBudget \in TileBudgets
  /\ tOut = <<>>
  /\ tpc = "call"

TileApply ==
  /\ tpc = "call"
  /\ tOut' = tileImagePng(tPng, tPage, TileSize, Overlap, tBudget)
  /\ tpc' = "done"
  /\ UNCHANGED <<tPng, tPage, tBudget>>

TileNext ==
  TileApply
  /\ UNCHANGED <<normVars, postVars, sideVars, autoVars, scanVars, keyVars, gridVars, pdfVars>>

SpecTile == TileInit /\ [][TileNext]_vars

----------------------------------------------------------------------------
(* SpecKey: makeDedupKey and the deduplication on two items                 *)
(*                                                                          *)
(* "FW!" is the full-width exclamation mark (U+FF01), a character the       *)
(* character class of makeDedupKey does not list.                           *)

FlyerItem(category, name, priceYen, unit, notes) ==
  [t |-> "item", category |-> Str(category), name |-> Str(name),
   priceYen |-> Num(priceYen), unit |-> unit, notes |-> notes]

\* item names as normalizeFlyerItem leaves them: trimmed and not empty
KeyNames(alphabet) ==
  {s \in SeqsUpTo(alphabet, MaxStrLen) : s # <<>> /\ Trim(s) = s}

KeyInit ==
  /\ NormIdle /\ PostIdle /\ SideIdle /\ AutoIdle /\ ScanIdle /\ TileIdle /\ GridIdle /\ PdfIdle
  /\ \/ \E name \in KeyNames({"a", "A"}) :
          kA = FlyerItem(<<"v">>, name, 100, Str(<<"g">>), Undef)
     \/ kA = FlyerItem(<<"v">>, <<"a", "|", "1">>, 1, Undef, Undef)
  /\ \/ \E name \in KeyNames({"a", "A", " ", "FW(", "FW!"}),
           category \in {<<"v">>, <<"m">>}, priceYen \in {100, 200},
           unit \in {Str(<<"g">>), Undef}, notes \in {Undef, Str(<<"n">>)} :
          kB = FlyerItem(category, name, priceYen, unit, notes)
     \/ kB = FlyerItem(<<"v">>, <<"a">>, 1, Str(<<"1", "|">>), Undef)
  /\ kKeys = <<>> /\ kOut = <<>> /\ kpc = "call"

\* lines 751-755 of extract-url/route.ts on allItems = [kA, kB]
KeyApply ==
  /\ kpc = "call"
  /\ kKeys' = <<makeDedupKey(kA), makeDedupKey(kB)>>
  /\ kOut' = MapValues(DedupInto(<<>>, <<kA, kB>>))
  /\ kpc' = "done"
  /\ UNCHANGED <<kA, kB>>

KeyNext ==
  KeyApply
  /\ UNCHANGED <<normVars, postVars, sideVars, autoVars, scanVars, tileVars, gridVars, pdfVars>>

SpecKey == KeyInit /\ [][KeyNext]_vars

----------------------------------------------------------------------------
(* SpecGrid: pickShufooTileGroups on a list of URLs, then composeShufooTiles *)
(* on each grid                                                             *)

MaxGridUrls == 4

GridHost == "ipqcache1.shufoo.net"

GridUrlChoices ==
  {TileUrl(GridHost, 3, i) : i \in 0..4} \cup {TileUrl(GridHost, 4, 0)}
  \cup {RcTileUrl(GridHost, 1, 0), RcTileUrl(GridHost, 1, 1)}

\* what the server of a tile may answer
GridAnswers == {FailResp, ImageResp(800, 600), ImageResp(400, 300)}

GridInit ==
  /\ NormIdle /\ PostIdle /\ SideIdle /\ AutoIdle /\ ScanIdle /\ TileIdle /\ KeyIdle /\ PdfIdle
  /\ cUrls \in UNION {[1..k -> GridUrlChoices] : k \in 0..MaxGridUrls}
  /\ cGroups = <<>> /\ ci = 0 /\ cOut = <<>>
  /\ cpc = "pick"

GridPick ==
  /\ cpc = "pick"
  /\ cGroups' = pickShufooTileGroups(cUrls)
  /\ ci' = 1
  /\ cpc' = "compose"
  /\ UNCHANGED <<cUrls, cOut>>

\* composeShufooTiles on the next grid
GridCompose ==
  /\ cpc = "compose"
  /\ ci <= Len(cGroups)
  /\ LET ts == cGroups[ci].tiles
         tileUrls == {ts[i].url : i \in 1..Len(ts)}
     IN  \E w \in [tileUrls -> GridAnswers] :
           cOut' = Append(cOut, [web |-> w,
                                 result |-> composeShufooTiles("itoyokado_kawasaki", ts, w)])
  /\ ci' = ci + 1
  /\ UNCHANGED <<cUrls, cGroups, cpc>>

GridNext ==
  \/ GridPick
     /\ UNCHANGED <<normVars, postVars, sideVars, autoVars, scanVars, tileVars, keyVars, pdfVars>>
  \/ GridCompose
     /\ UNCHANGED <<normVars, postVars, sideVars, autoVars, scanVars, tileVars, keyVars, pdfVars>>

SpecGrid == GridInit /\ [][GridNext]_vars

----------------------------------------------------------------------------
(* SpecPdf: one call of convertPdfToPngPages and its temporary directory   *)
(*                                                                          *)
(* Each await of the function is a step that succeeds or rejects.  The PDF  *)
(* given has fPdf pages; pdftoppm writes out-1.png ... out-<fPdf>.png, or   *)
(* the first of them before it fails.  fs.rm is taken to succeed.           *)

MaxPdfPages == 3

InputPdf == [name |-> "input.pdf"]
OutPng(k) == [name |-> "out", n |-> k]

\* const dir = await fs.mkdtemp(...)
PdfMkdtemp ==
  /\ fpc = "mkdtemp"
  /\ \/ fDir' = "exists" /\ fpc' = "writeFile" /\ UNCHANGED fResult
     \/ fResult' = Exception /\ fpc' = "done" /\ UNCHANGED fDir
  /\ UNCHANGED <<fEntry, fPdf, fFiles, fNames, fPages, fPending>>

\* await fs.writeFile(inPath, pdf), before the try block: a rejection
\* leaves the function, with or without a partial input.pdf
PdfWriteFile ==
  /\ fpc = "writeFile"
  /\ \/ fFiles' = {InputPdf} /\ fpc' = "pdftoppm" /\ UNCHANGED fResult
     \/ /\ fFiles' \in {{}, {InputPdf}}
        /\ fResult' = Exception
        /\ fpc' = "done"
  /\ UNCHANGED <<fEntry, fPdf, fDir, fNames, fPages, fPending>>

\* await execFileAsync('pdftoppm', ...), the first statement of the try block
PdfToPpm ==
  /\ fpc = "pdftoppm"
  /\ \/ /\ fFiles' = fFiles \cup {OutPng(k) : k \in 1..fPdf}
        /\ fpc' = "readdir"
        /\ UNCHANGED fPending
     \/ \E j \in 0..fPdf :
          /\ fFiles' = fFiles \cup {OutPng(k) : k \in 1..j}
          /\ fPending' = "throw"
          /\ fpc' = "finally"
  /\ UNCHANGED <<fEntry, fPdf, fDir, fNames, fPages, fResult>>

\* (await fs.readdir(dir)).filter(...).sort(...): the out-<n>.png by number
PdfReaddir ==
  /\ fpc = "readdir"
  /\ \/ /\ fNames' = [i \in 1..Cardinality(fFiles \ {InputPdf}) |-> i]
        /\ fpc' = IF fFiles \ {InputPdf} = {} THEN "finally" ELSE "readFile"
        /\ UNCHANGED fPending
     \/ fPending' = "throw" /\ fpc' = "finally" /\ UNCHANGED fNames
  /\ UNCHANGED <<fEntry, fPdf, fDir, fFiles, fPages, fResult>>

\* for (const f of files) pages.push(await fs.readFile(path.join(dir, f)))
PdfReadFile ==
  /\ fpc = "readFile"
  /\ \/ /\ fPages' = Append(fPages, OutPng(fNames[Len(fPages) + 1]))
        /\ fpc' = IF Len(fPages) + 1 = Len(fNames) THEN "finally" ELSE "readFile"
        /\ UNCHANGED fPending
     \/ fPending' = "throw" /\ fpc' = "finally" /\ UNCHANGED fPages
  /\ UNCHANGED <<fEntry, fPdf, fDir, fFiles, fNames, fResult>>

\* finally { await fs.rm(dir, { recursive: true, force: true }) }, and the
\* return or the rethrow that follows
PdfFinally ==
  /\ fpc = "finally"
  /\ fDir' = "removed"
  /\ fFiles' = {}
  /\ fResult' = IF fPending = "throw" THEN Exception ELSE [t |-> "pages", pages |-> fPages]
  /\ fpc' = "done"
  /\ UNCHANGED <<fEntry, fPdf, fNames, fPages, fPending>>

PdfInit ==
  /\ NormIdle /\ PostIdle /\ SideIdle /\ AutoIdle /\ ScanIdle /\ TileIdle /\ KeyIdle /\ GridIdle
  /\ fEntry \in {"extract-url", "extract"}
  /\ fPdf \in 0..MaxPdfPages
  /\ fDir = "none" /\ fFiles = {} /\ fNames = <<>> /\ fPages = <<>>
  /\ fPending = "return" /\ fResult = Undef
  /\ fpc = "mkdtemp"

PdfNext ==
  \/ PdfMkdtemp
     /\ UNCHANGED <<normVars, postVars, sideVars, autoVars, scanVars, tileVars, keyVars, gridVars>>
  \/ PdfWriteFile
     /\ UNCHANGED <<normVars, postVars, sideVars, autoVars, scanVars, tileVars, keyVars, gridVars>>
  \/ PdfToPpm
     /\ UNCHANGED <<normVars, postVars, sideVars, autoVars, scanVars, tileVars, keyVars, gridVars>>
  \/ PdfReaddir
     /\ UNCHANGED <<normVars, postVars, sideVars, autoVars, scanVars, tileVars, keyVars, gridVars>>
  \/ PdfReadFile
     /\ UNCHANGED <<normVars, postVars, sideVars, autoVars, scanVars, tileVars, keyVars, gridVars>>
  \/ PdfFinally
     /\ UNCHANGED <<normVars, postVars, sideVars, autoVars, scanVars, tileVars, keyVars, gridVars>>

SpecPdf == PdfInit /\ [][PdfNext]_vars

----------------------------------------------------------------------------
(* SpecScan: the helpers that collect URLs from HTML                        *)
(*                                                                          *)
(* The HTML scanned is the sequence of the references it holds.  A          *)
(* reference stands at a place:                                             *)
(*   "meta"  content of an og:image or twitter:image meta tag               *)
(*   "attr"  an href or src attribute                                       *)
(*   "css"   url(...)                                                       *)
(*   "text"  anywhere else in the markup                                    *)
(* and has a form:                                                          *)
(*   "absolute"       https://<host>/<n>.jpg                                *)
(*   "relative"       /<n>.jpg                                              *)
(*   "malformed"      https://[/<n>.jpg, which new URL() rejects            *)
(*   "malformed_rel"  //[/<n>.jpg, which new URL() rejects with any base    *)

MaxRefs == 2

Ref(place, form, n) == [place |-> place, form |-> form, n |-> n]

RefPlaces == {"meta", "attr", "css", "text"}

RefForms == {"absolute", "relative", "malformed", "malformed_rel"}

Null == [t |-> "null"]

\* new URL(ref, base).toString(), Null when it throws
NewUrl(ref, base) ==
  CASE ref.form = "absolute" -> ImgUrl("image.tokubai.co.jp", ref.n)
    [] ref.form = "relative" -> Url(base.scheme, base.host, "img", ref.n, 0, "", "", FALSE)
    [] OTHER -> Null

\* the string of the reference itself, taken as a URL
AsWritten(ref) ==
  IF ref.form = "absolute" THEN ImgUrl("image.tokubai.co.jp", ref.n) ELSE InvalidUrl

\* whether /https?:\/\/[^\s"'<>]+/ matches the reference
MatchesHttp(ref) == ref.form \in {"absolute", "malformed"}

\* discover/route.ts toAbsUrl and part_001 absolutize
toAbsUrl(ref, base) == NewUrl(ref, base)

\* lib/flyerDiscover.ts toAbs: the reference itself when new URL() throws
toAbs(base, ref) ==
  IF NewUrl(ref, base) = Null THEN AsWritten(ref) ELSE NewUrl(ref, base)

\* the loop of extractAttrUrls, extractMetaImages and extractCssUrls over
\* the references at one of the places
ExtractAt(html, places, base) ==
  LET hits == SelectSeq(html, LAMBDA r : r.place \in places)
      abs == [i \in 1..Len(hits) |-> toAbsUrl(hits[i], base)]
  IN  SelectSeq(abs, LAMBDA u : u # Null)

extractAttrUrls(html, base) == ExtractAt(html, {"attr"}, base)

extractMetaImages(html, base) == ExtractAt(html, {"meta"}, base)

extractCssUrls(html, base) == ExtractAt(html, {"css"}, base)

\* extractRawUrls: every match of the pattern in the markup, as it stands
extractRawUrls(html) ==
  LET hits == SelectSeq(html, MatchesHttp)
  IN  [i \in 1..Len(hits) |-> AsWritten(hits[i])]

\* part_001 extractUrlsFromHtml(...).images: meta tags, attributes and the
\* sweep of the markup, each through absolutize
extractUrlsFromHtml(html, base) ==
  LET swept == SelectSeq(html, MatchesHttp)
  IN  uniq(ExtractAt(html, {"meta"}, base) \o ExtractAt(html, {"attr"}, base)
           \o ExtractAt(swept, RefPlaces, base))

\* flyerDiscover.ts: extractHrefs(html).map((h) => toAbs(home, h))
LibHrefs(html, home) ==
  LET hits == SelectSeq(html, LAMBDA r : r.place = "attr")
  IN  [i \in 1..Len(hits) |-> toAbs(home, hits[i])]

ScanHelpers ==
  {"extractAttrUrls", "extractMetaImages", "extractCssUrls", "extractRawUrls",
   "extractUrlsFromHtml", "LibHrefs"}

ScanBase == PageUrl("store.lifecorp.jp")

ScanHtmls ==
  UNION {[1..k -> {Ref(p, f, 1) : p \in RefPlaces, f \in RefForms}] : k \in 0..MaxRefs}

ScanInit ==
  /\ NormIdle /\ PostIdle /\ SideIdle /\ AutoIdle /\ TileIdle /\ KeyIdle /\ GridIdle /\ PdfIdle
  /\ sHtml \in ScanHtmls
  /\ sHelper \in ScanHelpers
  /\ sOut = Undef
  /\ spc = "call"

ScanApply ==
  /\ spc = "call"
  /\ sOut' = CASE sHelper = "extractAttrUrls" -> extractAttrUrls(sHtml, ScanBase)
               [] sHelper = "extractMetaImages" -> extractMetaImages(sHtml, ScanBase)
               [] sHelper = "extractCssUrls" -> extractCssUrls(sHtml, ScanBase)
               [] sHelper = "extractRawUrls" -> extractRawUrls(sHtml)
               [] sHelper = "extractUrlsFromHtml" -> extractUrlsFromHtml(sHtml, ScanBase)
               [] sHelper = "LibHrefs" -> LibHrefs(sHtml, ScanBase)
  /\ spc' = "done"
  /\ UNCHANGED <<sHtml, sHelper>>

ScanNext ==
  ScanApply
  /\ UNCHANGED <<normVars, postVars, sideVars, autoVars, tileVars, keyVars, gridVars, pdfVars>>

SpecScan == ScanInit /\ [][ScanNext]_vars

----------------------------------------------------------------------------
(* Properties *)

Range(f) == {f[i] : i \in DOMAIN f}

FailedCall(o) == o.kind \in {"error", "unparseable"}

\* the tiles whose call failed, by 1-based index, in ascending order
RECURSIVE FailedTiles(_, _)
FailedTiles(os, from) ==
  IF os = <<>> THEN <<>>
  ELSE (IF FailedCall(Head(os)) THEN <<from>> ELSE <<>>) \o FailedTiles(Tail(os), from + 1)

\* the items of the calls that did not fail, normalized, nulls left out
RECURSIVE ItemsOfOkTiles(_)
ItemsOfOkTiles(os) ==
  IF os = <<>> THEN <<>>
  ELSE LET o == Head(os)
           kept == IF FailedCall(o) \/ ~o.isArray THEN <<>>
                   ELSE SelectSeq([i \in 1..Len(o.items) |-> normalizeFlyerItem(o.items[i])],
                                  LAMBDA it : it # NullItem)
       IN  kept \o ItemsOfOkTiles(Tail(os))

TileWarnings == SelectSeq(warnings, LAMBDA w : w.kind = "tile")

\* C1: when the extraction loop has ended, the capability was called once for
\* every tile 1..N in order, the warnings hold exactly one tile warning per
\* failed tile, carrying that tile's 1-based index, and allItems holds every
\* normalized item of every tile that did not fail: no failure ends the loop.
C1_BatchNeverAborts ==
  pc = "done" /\ Len(tiles) > 0 =>
    /\ calls = [i \in 1..Len(tiles) |-> i]
    /\ Len(outcomes) = Len(tiles)
    /\ LET F == FailedTiles(outcomes, 1)
       IN  TileWarnings = [k \in 1..Len(F) |-> TileWarning(F[k], Len(tiles))]
    /\ allItems = ItemsOfOkTiles(outcomes)

\* five tiles, the third fails, the other four return items
C1_Witness ==
  /\ pc = "done"
  /\ Len(tiles) = 5
  /\ FailedTiles(outcomes, 1) = <<3>>
  /\ \A i \in {1, 2, 4, 5} : callGeminiForTile(outcomes[i]).itemsRaw # <<>>
  /\ Len(allItems) >= 4

\* the last position of allItems holding key k
LastIndexOfKey(k) ==
  CHOOSE j \in 1..Len(allItems) :
    /\ makeDedupKey(allItems[j]) = k
    /\ \A l \in (j + 1)..Len(allItems) : makeDedupKey(allItems[l]) # k

\* C2: the deduplicated list holds one item per dedup key of allItems, and for
\* each key it is the last item of allItems with that key, unchanged.
C2_LastWriteWins ==
  pc = "done" /\ Len(tiles) > 0 =>
    /\ \A i, j \in 1..Len(items) : i # j => makeDedupKey(items[i]) # makeDedupKey(items[j])
    /\ {makeDedupKey(it) : it \in Range(items)} = {makeDedupKey(it) : it \in Range(allItems)}
    /\ \A i \in 1..Len(items) : items[i] = allItems[LastIndexOfKey(makeDedupKey(items[i]))]

\* two different items with one key were accumulated, and one of them is left
C2_Witness ==
  /\ pc = "done"
  /\ \E j, l \in 1..Len(allItems) :
       /\ j < l
       /\ makeDedupKey(allItems[j]) = makeDedupKey(allItems[l])
       /\ allItems[j] # allItems[l]
       /\ allItems[j] \notin Range(items)
  /\ Len(items) < Len(allItems)

IsItem(x) == x # NullItem /\ x.t = "item"

IsPositiveInteger(x) == x.t = "num" /\ x.tenths > 0 /\ x.tenths % 10 = 0

\* C8: every item normalizeFlyerItem returns has a non-empty trimmed name and
\* a priceYen that is a finite positive integer.
C8_ItemsHaveNameAndIntegerPrice ==
  npc = "done" /\ IsItem(out) =>
    /\ Trim(out.name.s) # <<>>
    /\ IsPositiveInteger(out.priceYen)

\* the price normalizeFlyerItem reads: raw.priceYen ?? raw.price ?? raw.price_yen
PriceInput(r) == Coalesce(Coalesce(r.priceYen, r.price), r.price_yen)

HasDigit(s) == \E i \in 1..Len(s) : s[i] \in Digits

\* a price that is zero, negative or not numeric, as a number or as a string
IsZeroPrice(v) ==
  \/ v.t = "num" /\ v.tenths = 0
  \/ v.t = "str" /\ v.s # <<>> /\ \A i \in 1..Len(v.s) : v.s[i] = "0"

IsNegativePrice(v) ==
  \/ v.t = "num" /\ v.tenths < 0
  \/ /\ v.t = "str" /\ Len(v.s) >= 2 /\ v.s[1] = "-"
       /\ \A i \in 2..Len(v.s) : v.s[i] \in Digits
       /\ \E k \in 2..Len(v.s) : v.s[k] # "0"

IsNonNumericPrice(v) ==
  \/ v.t \in {"undef", "null", "bool", "nan"}
  \/ v.t = "str" /\ ~HasDigit(v.s)

\* C9: a price input that is 0, negative or non-numeric, number or string,
\* makes normalizeFlyerItem return null, and the string 1,280 followed by
\* currency and tax text gives the price 1280.
C9_BadPricesDropped ==
  npc = "done" /\ raw.t = "obj" =>
    /\ (IsZeroPrice(PriceInput(raw)) \/ IsNegativePrice(PriceInput(raw))
          \/ IsNonNumericPrice(PriceInput(raw))) => out = NullItem
    /\ (PriceInput(raw) = Str(TaxedPrice) /\ IsItem(out)) => out.priceYen = Num(1280)

\* the URLs a page served during the request holds
LinkedUrls ==
  UNION {Range(web[p].meta) \cup Range(web[p].links) : p \in DOMAIN web}

C4_ResolveFetchesOnlyPermittedHosts ==
  \A i \in 1..Len(rFetched) :
    /\ rReq.storeId \in ConfiguredStores
    /\ rFetched[i].url.host \in ALLOWLIST(rReq.storeId)

\* C5: a request with a recognized storeId and a non-empty urls array (of
\* strings, the API key being configured) is always answered with status 200
\* and a warnings list, whichever step fails; nothing surfaces as an error
\* status or as an exception out of the handler.
C5_AlwaysOkWithWarnings ==
  (/\ pc = "done"
   /\ req.apiKey
   /\ req.storeId \in ConfiguredStores
   /\ req.urls.t = "array" /\ req.urls.a # <<>>
   /\ \A i \in 1..Len(req.urls.a) : req.urls.a[i].kind # "nonstring")
  => (resp.t = "response" /\ resp.status = 200)

\* C6: a request whose storeId is not one of the three configured stores, or
\* whose urls is missing, not an array or empty (no url field given, the API
\* key being configured), is answered 400 and no fetch and no extraction
\* call is made for it.
C6_InvalidRequestRejected ==
  (/\ req.apiKey
   /\ req.url.t = "undef"
   /\ \/ req.storeId \notin ConfiguredStores
      \/ req.urls.t # "array"
      \/ req.urls.a = <<>>)
  => /\ fetched = <<>>
     /\ calls = <<>>
     /\ pc = "done" => resp = ErrorResponse(400)

\* C7: the number of tiles generated over all pages never exceeds the
\* maxTiles the caller supplied (a number, not negative).
C7_TilesWithinBudget ==
  (req.maxTiles.t = "num" /\ req.maxTiles.tenths >= 0)
  => 10 * Len(tiles) <= MaxTilesOf(req).tenths

\* C10: discovery for aoba_oshima, by the route and by
\* discoverFlyerCandidates, answers exactly the two hardcoded image
\* candidates in their order with an empty warnings list, and fetches
\* nothing on the way.
C10_AobaFixedListNoFetch ==
  dStoreId = "aoba_oshima" =>
    /\ dFetched = <<>>
    /\ dpc = "done" =>
         /\ dResult.t = "response" /\ dResult.status = 200
         /\ dResult.warnings = <<>>
         /\ Len(dResult.candidates) = 2
         /\ \A i \in 1..2 :
              /\ dResult.candidates[i].kind = "image"
              /\ dResult.candidates[i].source = "fixed"
              /\ dResult.candidates[i].url =
                   [scheme |-> "https", host |-> "www.bicrise.com", kind |-> "img", n |-> i,
                    idx |-> 0, seg |-> "", q |-> "", thumb |-> FALSE]

\* C10 witness: the route has answered a discovery for aoba_oshima.
C10_Witness ==
  /\ dEntry = "route" /\ dStoreId = "aoba_oshima" /\ dpc = "done"
  /\ dResult.t = "response" /\ Len(dResult.candidates) = 2

\* C11: whenever a discovery call (route or discoverFlyerCandidates) returns
\* successfully with an empty candidates list, its warnings list holds at
\* least one warning.
C11_EmptyCandidatesHaveWarning ==
  (/\ dpc = "done"
   /\ dResult.t = "response" /\ dResult.status = 200
   /\ dResult.candidates = <<>>)
  => dResult.warnings # <<>>

C13_IngredientsCappedAt30 ==
  (pc = "done" /\ route = "extract-url" /\ resp.t = "response" /\ tiles # <<>>)
  => /\ resp.count = Len(resp.items)
     /\ IF req.mode = "ingredients"
        THEN /\ Len(resp.items) <= 30
             /\ resp.items = SubSeq(items, 1, IF Len(items) < 30 THEN Len(items) ELSE 30)
        ELSE resp.items = items

\* C13 witness: more than 30 items after deduplication, mode ingredients,
\* 30 returned.
C13_Witness ==
  /\ pc = "done" /\ route = "extract-url" /\ req.mode = "ingredients"
  /\ Len(allItems) > Len(items) /\ Len(items) > 30
  /\ Len(resp.items) = 30

\* the image URLs of the resolve route's answer, in order
ResolvedImageUrls ==
  LET cs == SelectSeq(rResp.candidates, LAMBDA c : c.kind = "image")
  IN  [i \in 1..Len(cs) |-> cs[i].url]

IndexIn(xs, x) == CHOOSE i \in 1..Len(xs) : xs[i] = x

\* C14: the resolve route answers exactly the image URLs of the page that
\* are not on the denylist (imgCandidates), all of them, by descending
\* heuristic score, ties in the order of discovery (stated for the stores
\* answered from the markup alone, without browser and without rewrite).
C14_ResolverReturnsAllNonDenylisted ==
  (/\ rpc = "done" /\ rResp.t = "response"
   /\ rReq.storeId \notin {"itoyokado_kawasaki", "life_kawasaki_oshima"})
  => LET imgs == ResolvedImageUrls
     IN  /\ Range(imgs) = Range(rImgs)
         /\ \A i \in 1..Len(imgs) : ~looksBad(imgs[i])
         /\ \A i, j \in 1..Len(imgs) :
              i < j => \/ scoreShufooImageLike(imgs[i]) > scoreShufooImageLike(imgs[j])
                       \/ /\ scoreShufooImageLike(imgs[i]) = scoreShufooImageLike(imgs[j])
                          /\ IndexIn(rImgs, imgs[i]) < IndexIn(rImgs, imgs[j])

\* the URLs of the request and the image URLs of the pages resolved for it
\* that are well-formed and fail the allowlist check of the request's store
DisallowedUrls ==
  {u \in Range(urls) \cup {l \in LinkedUrls : looksLikeImageUrl(l)} :
     /\ u.kind \notin {"invalid", "nonstring"}
     /\ ~(u.scheme \in {"http", "https"} /\ u.host \in ALLOWLIST(req.storeId))}

\* C15: in the extract-url pipeline a URL outside the store's allowlist,
\* given by the caller or found by resolving a page, is not fetched, does
\* not make the request fail, and has an entry in the warnings of the
\* response.
C15_DisallowedUrlWarned ==
  (pc = "done" /\ req.storeId \in ConfiguredStores /\ resp.t # "exception")
  => \A u \in DisallowedUrls :
       /\ u \notin Range(fetched)
       /\ resp.t = "response" /\ resp.status = 200
       /\ \E i \in 1..Len(resp.warnings) :
            "url" \in DOMAIN resp.warnings[i] /\ resp.warnings[i].url = u

\* C16: every fetch of the pipeline is bounded by a timeout, so a resolve
\* request eventually returns a response even when an upstream server
\* never answers.
C16_RequestEventuallyReturns == <>(rpc = "done")

\* C17: a cancelled auto-fetch run writes nothing: a step of a run whose
\* controller is aborted changes neither the state of the store (no
\* error state, no done state) nor its result.
C17_CancelledRunWritesNothing ==
  [][\A r \in DOMAIN autoRuns :
       (autoRuns[r].aborted /\ autoRuns'[r].pc # autoRuns[r].pc)
       => /\ autoStateByStore' = autoStateByStore
          /\ autoFlyerByStore' = autoFlyerByStore]_vars

\* C18: every URL a URL-collecting helper returns is absolute,
\* scheme-qualified and parseable; a reference that does not resolve
\* against the base is not in the output.
C18_OnlyAbsoluteParseableUrls ==
  spc = "done"
  => \A i \in 1..Len(sOut) :
       sOut[i].kind # "invalid" /\ sOut[i].scheme \in {"http", "https"}

\* the window positions of a side of length n: the multiples of 928 below n
GridCount(n) == (n - 1) \div 928 + 1

\* the i-th tile (from 0) of the row-major grid over a bitmap of w x h
GridTile(i, w, h, p) ==
  LET left == (i % GridCount(w)) * 928
      top == (i \div GridCount(w)) * 928
  IN  ExtractionTile(p, i, left, top,
                     IF w - left < 1024 THEN w - left ELSE 1024,
                     IF h - top < 1024 THEN h - top ELSE 1024)

\* the number of tiles a budget lets through: the loop stops once the
\* tiles pushed reach the budget, and it checks after the push
WithinBudget(n, b) ==
  IF b.t # "num" THEN n
  ELSE LET ceil == IF b.tenths <= 10 THEN 1 ELSE (b.tenths + 9) \div 10
       IN  IF n < ceil THEN n ELSE ceil

\* C19 (corrected): tileImagePng with window 1024 and overlap 96 returns
\* the tiles of the row-major grid whose origins are the multiples of 928
\* below the width and below the height, each clipped to the bitmap and
\* numbered 0, 1, 2, ... in the page, up to the budget maxTilesTotal: the
\* first tiles of that grid, all of them when the budget is not reached.
C19_TileGrid ==
  tpc = "done"
  => /\ Len(tOut) = WithinBudget(GridCount(tPng.w) * GridCount(tPng.h), tBudget)
     /\ \A i \in 1..Len(tOut) :
          /\ tOut[i] = GridTile(i - 1, tPng.w, tPng.h, tPage)
          /\ tOut[i].left + tOut[i].width <= tPng.w
          /\ tOut[i].top + tOut[i].height <= tPng.h

\* C19 witness: a bitmap of several rows and columns whose last tile is
\* clipped on both sides
C19_Witness ==
  /\ tpc = "done" /\ Len(tOut) >= 6
  /\ tOut[Len(tOut)].left > 0 /\ tOut[Len(tOut)].top > 0
  /\ tOut[Len(tOut)].width < 1024 /\ tOut[Len(tOut)].height < 1024

\* C19 as stated: the tiles are the whole grid, one per window position
C19_WholeGrid ==
  tpc = "done"
  => /\ Len(tOut) = GridCount(tPng.w) * GridCount(tPng.h)
     /\ \A i \in 1..Len(tOut) : tOut[i] = GridTile(i - 1, tPng.w, tPng.h, tPage)

FullWidthPunctuation ==
  {"FW(", "FW)", "FW[", "FW]", "FWQ1", "FWQ2", "FWQ3", "FWQ4", "NAKAGURO",
   "FW,", "FW.", "MARU", "FW:", "FW/", "FW!"}

\* a name without what the claim says does not count: letter case,
\* whitespace and full-width punctuation
FoldName(s) == RemoveChars(ToLower(s), WhiteSpace \cup FullWidthPunctuation)

\* C20: two items of equal priceYen and unit whose names differ only by
\* letter case, whitespace or full-width punctuation have equal dedup keys
\* and collapse to one item, whatever their category and notes.
C20_VariantsCollapse ==
  (/\ kpc = "done"
   /\ kA.priceYen = kB.priceYen /\ kA.unit = kB.unit
   /\ FoldName(kA.name.s) = FoldName(kB.name.s))
  => kKeys[1] = kKeys[2] /\ Len(kOut) = 1

UnitOf(it) == IF it.unit.t = "str" THEN it.unit.s ELSE <<>>

\* C21: two items have equal dedup keys if and only if their normalized
\* names, their prices and their normalized units are equal.
C21_KeyIffTriple ==
  kpc = "done"
  => ((kKeys[1] = kKeys[2])
      <=> (/\ norm(kA.name.s) = norm(kB.name.s)
           /\ kA.priceYen = kB.priceYen
           /\ norm(UnitOf(kA)) = norm(UnitOf(kB))))

\* the URLs of cUrls that parse to the key of u, in the order of cUrls
KeyClass(u) == SelectSeq(cUrls, LAMBDA v : ParsesAsTile(v) /\ TileKey(v) = TileKey(u))

GridTileUrls(g) == [i \in 1..Len(g.tiles) |-> g.tiles[i].url]

\* C22 (corrected): pickShufooTileGroups puts two URLs into the same grid
\* exactly when they parse to the same key, which is (origin, directory,
\* page, size) for a name <page>_<size>_<t> with t in 0..3 and (origin,
\* directory, base name) for a name <base>_<row><col>; tile index t maps to
\* (row, col) = (t div 2, t mod 2) and the two digits to (row, col) as they
\* stand; only grids with at least 2 members are returned, and a URL whose
\* key has no other member, or that does not parse, is in no grid.
C22_GridsByKey ==
  cpc = "compose"
  => /\ \A g \in 1..Len(cGroups) :
          /\ Len(cGroups[g].tiles) >= 2
          /\ GridTileUrls(cGroups[g]) = KeyClass(cGroups[g].tiles[1].url)
          /\ \A i \in 1..Len(cGroups[g].tiles) :
               LET t == cGroups[g].tiles[i]
               IN  IF t.url.kind = "tile"
                   THEN t.url.idx \in 0..3 /\ t.row = t.url.idx \div 2 /\ t.col = t.url.idx % 2
                   ELSE t.url.kind = "rctile" /\ 10 * t.row + t.col = t.url.idx /\ t.col < 10
     /\ \A g, h \in 1..Len(cGroups) :
          g # h => cGroups[g].tiles[1].url \notin Range(KeyClass(cGroups[h].tiles[1].url))
     /\ \A i \in 1..Len(cUrls) :
          (\E g \in 1..Len(cGroups) : cUrls[i] \in Range(GridTileUrls(cGroups[g])))
          <=> (ParsesAsTile(cUrls[i]) /\ Len(KeyClass(cUrls[i])) >= 2)

\* C22 witness: a grid is returned, and a URL that parses and is alone
\* with its key is in none
C22_Witness ==
  /\ cpc = "compose" /\ cGroups # <<>>
  /\ \E i \in 1..Len(cUrls) :
       /\ ParsesAsTile(cUrls[i]) /\ Len(KeyClass(cUrls[i])) = 1
       /\ \A g \in 1..Len(cGroups) : cUrls[i] \notin Range(GridTileUrls(cGroups[g]))

\* C22 as stated: the only key is (origin, directory, page, size) of a
\* name <page>_<size>_<t>, and every tile of a grid has (row, col) =
\* (t div 2, t mod 2)
C22_GridsByPageKey ==
  cpc = "compose"
  => \A g \in 1..Len(cGroups) : \A i \in 1..Len(cGroups[g].tiles) :
       LET t == cGroups[g].tiles[i]
       IN  t.url.kind = "tile" /\ t.row = t.url.idx \div 2 /\ t.col = t.url.idx % 2

\* the tiles of the grid composed as the g-th, and what their servers
\* answered
ComposedTiles(g) == cGroups[g].tiles

AnswerOf(g, i) == cOut[g].web[ComposedTiles(g)[i].url]

\* C23: when every tile of a grid of at least 2 is fetched and all have
\* one size W x H, composeShufooTiles gives a canvas of width
\* (maxCol - minCol + 1) * W and height (maxRow - minRow + 1) * H and
\* pastes each tile at left (col - minCol) * W and top (row - minRow) * H,
\* inside the canvas.
C23_CanvasGeometry ==
  \A g \in 1..Len(cOut) :
    LET ts == ComposedTiles(g)
        first == AnswerOf(g, 1)
        rows == {ts[i].row : i \in 1..Len(ts)}
        cols == {ts[i].col : i \in 1..Len(ts)}
        r == cOut[g].result
    IN  (\A i \in 1..Len(ts) : AnswerOf(g, i).k = "image" /\ AnswerOf(g, i) = first)
        => /\ r.t = "png"
           /\ r.canvas.width = (SetMax(cols) - SetMin(cols) + 1) * first.w
           /\ r.canvas.height = (SetMax(rows) - SetMin(rows) + 1) * first.h
           /\ Len(r.canvas.composites) = Len(ts)
           /\ \A i \in 1..Len(ts) :
                LET c == r.canvas.composites[i]
                IN  /\ c.left = (ts[i].col - SetMin(cols)) * first.w
                    /\ c.top = (ts[i].row - SetMin(rows)) * first.h
                    /\ c.left + first.w <= r.canvas.width
                    /\ c.top + first.h <= r.canvas.height

\* C23 witness: four 800x600 tiles at (0,0), (0,1), (1,0), (1,1) give a
\* canvas of 1600x1200 with the tile (1,1) at (800, 600)
C23_Witness ==
  /\ Len(cOut) = 1 /\ Len(cGroups[1].tiles) = 4
  /\ {<<cGroups[1].tiles[i].row, cGroups[1].tiles[i].col>> : i \in 1..4}
       = {<<0, 0>>, <<0, 1>>, <<1, 0>>, <<1, 1>>}
  /\ \A i \in 1..4 : cOut[1].web[cGroups[1].tiles[i].url] = ImageResp(800, 600)
  /\ cOut[1].result.t = "png"
  /\ cOut[1].result.canvas.width = 1600 /\ cOut[1].result.canvas.height = 1200
  /\ \E i \in 1..4 :
       /\ cGroups[1].tiles[i].row = 1 /\ cGroups[1].tiles[i].col = 1
       /\ cOut[1].result.canvas.composites[i] = [left |-> 800, top |-> 600]

\* the tiles of the g-th grid whose fetch gave an image
UsableTiles(g) == {i \in 1..Len(ComposedTiles(g)) : AnswerOf(g, i).k = "image"}

\* C24: a tile that cannot be fetched is dropped and is no error: the
\* grid is composited from the tiles that were fetched, and only a grid
\* with fewer than 2 usable tiles gives no composite.  (Stated for grids
\* whose fetched tiles have one size.)
C24_MissingTilesDropped ==
  \A g \in 1..Len(cOut) :
    (\A i, j \in UsableTiles(g) : AnswerOf(g, i) = AnswerOf(g, j))
    => /\ cOut[g].result.t # "threw"
       /\ (Cardinality(UsableTiles(g)) >= 2 <=> cOut[g].result.t = "png")
       /\ Len(cOut[g].result.entries) = Cardinality(UsableTiles(g))

\* C25: the extraction calls of a request are made one after the other in
\* ascending tile order: at most one call is in flight, the calls made
\* are those for tiles 1, 2, 3, ... each once, a call starts only when
\* all earlier ones have returned or failed, and at the end every tile was
\* submitted exactly once, failed or not.
C25_SequentialCalls ==
  /\ Len(calls) - Len(outcomes) \in {0, 1}
  /\ Len(calls) - Len(outcomes) = 1 <=> pc = "awaiting"
  /\ calls = [i \in 1..Len(calls) |-> i]
  /\ Len(outcomes) = ti
  /\ pc = "done" => Len(calls) = Len(tiles)

\* C25 witness: a request of 3 tiles or more is answered after a call
\* that failed and a later call that returned
C25_Witness ==
  /\ pc = "done" /\ Len(tiles) >= 3
  /\ \E i, j \in 1..Len(outcomes) :
       i < j /\ callGeminiForTile(outcomes[i]).threw /\ ~callGeminiForTile(outcomes[j]).threw

\* C26: discovery for itoyokado_kawasaki never returns a Shufoo list-page
\* URL (.../shop/<id>/list) as a candidate, also when no detail URL can
\* be found or synthesized.
C26_NoListCandidate ==
  (dStoreId = "itoyokado_kawasaki" /\ dpc = "done" /\ dResult # Undef
     /\ "candidates" \in DOMAIN dResult)
  => \A i \in 1..Len(dResult.candidates) : ~IsShufooList(dResult.candidates[i].url)

\* C26 for the route alone
C26_RouteNoListCandidate == dEntry = "route" => C26_NoListCandidate

\* the life cards of a page with a parsed date that no dated card exceeds
LatestLifeCards(page) ==
  {i \in 1..Len(page.lifeCards) :
     /\ page.lifeCards[i].start >= 0
     /\ \A j \in 1..Len(page.lifeCards) : page.lifeCards[j].start <= page.lifeCards[i].start}

\* the shufoo cards of a page with a parsed date that no dated card exceeds
LatestShufooCards(page) ==
  {i \in 1..Len(page.shufooCards) :
     /\ page.shufooCards[i].ts >= 0
     /\ \A j \in 1..Len(page.shufooCards) : page.shufooCards[j].ts <= page.shufooCards[i].ts}

\* the cards with the full year-month-day date: the images selected are
\* those of the cards of the latest date, all of them
C27_LifeLatestSelected ==
  (dEntry = "route" /\ dStoreId = "life_kawasaki_oshima" /\ dHtml # Undef)
  => LET sel == pickLatestLifeLeaflets(dHtml)
     IN  {sel[i] : i \in 1..Len(sel)}
         = {toTokubaiHighRes(dHtml.lifeCards[i].img) : i \in LatestLifeCards(dHtml)}

\* the cards with the short M/D date: a card is selected when and only when
\* it is one of the cards of the latest date
C27_ShufooLatestSelected ==
  (dEntry = "route" /\ dStoreId = "itoyokado_kawasaki" /\ dHtml # Undef)
  => \A i \in 1..Len(dHtml.shufooCards) :
       (pickLatestShufooCardUrl(dHtml) = SomeUrl(dHtml.shufooCards[i].href))
       <=> i \in LatestShufooCards(dHtml)

\* C27: in card-based latest-item selection every card whose parsed date is
\* the maximum is selected (ties all included) and no card with an earlier
\* date or without a parsed date is, for both date forms (full
\* year-month-day and short M/D).
C27_LatestCardsAllSelected == C27_LifeLatestSelected /\ C27_ShufooLatestSelected

\* the one tile that is the whole bitmap
IsWholeBitmap(ts, png) ==
  /\ Len(ts) = 1
  /\ ts[1].left = 0 /\ ts[1].top = 0
  /\ ts[1].width = png.w /\ ts[1].height = png.h

\* C28: tileImagePng on a bitmap whose width and height are both at most
\* the window size (1024) produces exactly one tile, and that tile covers
\* the whole bitmap.
C28_SmallBitmapOneTile ==
  (tpc = "done" /\ tPng.w <= TileSize /\ tPng.h <= TileSize)
  => IsWholeBitmap(tOut, tPng)

\* the same for a bitmap whose sides are at most the step of the window,
\* 1024 - 96
C28_WithinStepOneTile ==
  (tpc = "done" /\ tPng.w <= TileSize - Overlap /\ tPng.h <= TileSize - Overlap)
  => IsWholeBitmap(tOut, tPng)

\* the page bitmaps made of the asset at u: the bitmap of an image or of
\* a PDF page fetched from u, and the grid stitched that u is the first
\* tile of
BitmapsOf(u) == {i \in 1..Len(pagePngs) : pagePngs[i].src = u}

\* u is a tile of a stitched grid other than the one its bitmap is named by
StitchedInto(u) ==
  /\ u \in stitchedTileUrls
  /\ \E g \in 1..Len(groups) :
       /\ \E i \in 1..Len(groups[g].tiles) : groups[g].tiles[i].url = u
       /\ groups[g].tiles[1].url # u

\* C29: within one extract-url request every distinct asset URL contributes
\* to at most one page bitmap: it is a member of one stitched grid and then
\* skipped by the normalization loop, or it is normalized individually
\* once, never both and never twice, also after tile expansion.  (PDF URLs,
\* which give one bitmap per page, are left out.)
C29_EachUrlOnePage ==
  \A i \in 1..Len(inputUrls) :
    LET u == inputUrls[i]
    IN  u.kind # "pdf"
        => /\ Cardinality(BitmapsOf(u)) <= 1
           /\ StitchedInto(u) => BitmapsOf(u) = {}

\* the same for the requests of one tile URL, where the only URLs added are
\* those of the tile expansion
C29_AfterExpansion ==
  (Len(urls) = 1 /\ urls[1].kind = "tile") => C29_EachUrlOnePage

\* C30: the temporary directory created by convertPdfToPngPages is removed
\* on every exit path: once a call has returned or thrown (also after a
\* failure of writing the input file, of the rasterizer or of reading the
\* output pages) the directory no longer exists.
C30_TempDirRemoved == fpc = "done" => fDir # "exists"

\* a call that ends with the directory in place is one that threw at
\* fs.writeFile, before the try block: every later exit removes it
C30_RemovedAfterTry ==
  (fpc = "done" /\ fDir = "exists") => (fResult = Exception /\ fFiles \subseteq {InputPdf})

====
